---- MODULE Spec2Model ----
(***************************************************************************)
(* Model of the nudelink URL cleaners: the heuristic cleaner stripTracking *)
(* (striptracking.js) and the ClearURLs rule interpreter applyClearUrls    *)
(* (clearurls-apply.js).                                                   *)
(*                                                                         *)
(* A JavaScript string is modelled as a sequence of tokens.  A token is    *)
(* either one delimiter character ("?", "#", "&", "=", " "), the           *)
(* percent-encoded form of a delimiter ("%3F", ...), or a run of           *)
(* characters that holds no delimiter (an origin "https://example.com", a  *)
(* path segment "/page", a name "utm_source").  The WHATWG URL parser, the *)
(* application/x-www-form-urlencoded parser and serializer, and the        *)
(* regular expressions of the code act on these sequences delimiter by     *)
(* delimiter, as they act on the characters.                               *)
(***************************************************************************)
EXTENDS Naturals, Sequences, FiniteSets

VARIABLES input, opts, rules, pc, res, res2, variant, storage, runs, attempts,
          state, alarms, streak

\* the state of the two cleaners and of their callers
cleanVars == <<input, opts, rules, pc, res, res2>>

\* the state of the rules refresh in the background script
refreshVars == <<variant, storage, runs, attempts, state, alarms, streak>>

\* the persisted backoff state, the alarms and the delays of the failures
\* since the backoff was last reset
backoffVars == <<state, alarms, streak>>

vars ==
  <<input, opts, rules, pc, res, res2, variant, storage, runs, attempts,
    state, alarms, streak>>

(***************************************************************************)
(* Tokens                                                                  *)
(***************************************************************************)
GoogleOrigin == "https://www.google.com"
FacebookOrigin == "https://l.facebook.com"
InstagramOrigin == "https://www.instagram.com"
ExampleOrigin == "https://example.com"

Origins == {GoogleOrigin, FacebookOrigin, InstagramOrigin, ExampleOrigin}

PathTokens == {"/", "/url", "/l.php", "/page"}

\* encodeURIComponent-style byte serialization of one token, as the
\* application/x-www-form-urlencoded serializer writes it: every character
\* outside [A-Za-z0-9*-._] is percent-encoded.
EncTok(t) ==
  CASE t = "?" -> "%3F"
    [] t = "#" -> "%23"
    [] t = "&" -> "%26"
    [] t = "=" -> "%3D"
    [] t = " " -> "+"
    [] t = "/" -> "%2F"
    [] t = "/url" -> "%2Furl"
    [] t = "/l.php" -> "%2Fl.php"
    [] t = "/page" -> "%2Fpage"
    [] t = GoogleOrigin -> "https%3A%2F%2Fwww.google.com"
    [] t = FacebookOrigin -> "https%3A%2F%2Fl.facebook.com"
    [] t = InstagramOrigin -> "https%3A%2F%2Fwww.instagram.com"
    [] t = ExampleOrigin -> "https%3A%2F%2Fexample.com"
    [] OTHER -> t

\* Percent-decoding of one token (and "+" to space), as the
\* application/x-www-form-urlencoded parser reads it.
DecTok(t) ==
  CASE t = "%3F" -> "?"
    [] t = "%23" -> "#"
    [] t = "%26" -> "&"
    [] t = "%3D" -> "="
    [] t = "+" -> " "
    [] t = "%2F" -> "/"
    [] t = "%2Furl" -> "/url"
    [] t = "%2Fl.php" -> "/l.php"
    [] t = "%2Fpage" -> "/page"
    [] t = "https%3A%2F%2Fwww.google.com" -> GoogleOrigin
    [] t = "https%3A%2F%2Fl.facebook.com" -> FacebookOrigin
    [] t = "https%3A%2F%2Fwww.instagram.com" -> InstagramOrigin
    [] t = "https%3A%2F%2Fexample.com" -> ExampleOrigin
    [] OTHER -> t

\* String.prototype.toLowerCase on one token.
LowerTok(t) ==
  CASE t = "UTM_New" -> "utm_new"
    [] t = "REF" -> "ref"
    [] t = "Custom_Param" -> "custom_param"
    [] OTHER -> t

Enc(s) == [i \in 1..Len(s) |-> EncTok(s[i])]
Dec(s) == [i \in 1..Len(s) |-> DecTok(s[i])]
Lower(s) == [i \in 1..Len(s) |-> LowerTok(s[i])]

\* k.startsWith("utm_") on a lower-cased string.
StartsWithUtm(k) ==
  /\ Len(k) > 0
  /\ k[1] \in {"utm_source", "utm_medium", "utm_content", "utm_new"}

(***************************************************************************)
(* Sequence helpers                                                        *)
(***************************************************************************)
\* String.prototype.indexOf for one delimiter: the first position, 0 if none.
IndexOf(s, t) ==
  IF \E i \in 1..Len(s) : s[i] = t
  THEN CHOOSE i \in 1..Len(s) : s[i] = t /\ \A j \in 1..(i - 1) : s[j] # t
  ELSE 0

Drop(s, n) == SubSeq(s, n + 1, Len(s))
Take(s, n) == SubSeq(s, 1, n)

RECURSIVE TrimLeft(_)
TrimLeft(s) == IF Len(s) > 0 /\ s[1] = " " THEN TrimLeft(Tail(s)) ELSE s

RECURSIVE TrimRight(_)
TrimRight(s) ==
  IF Len(s) > 0 /\ s[Len(s)] = " " THEN TrimRight(Take(s, Len(s) - 1)) ELSE s

\* String.prototype.trim
Trim(s) == TrimRight(TrimLeft(s))

\* String.prototype.split on one delimiter.
RECURSIVE Split(_, _)
Split(s, d) ==
  LET i == IndexOf(s, d)
  IN IF i = 0 THEN <<s>> ELSE <<Take(s, i - 1)>> \o Split(Drop(s, i), d)

RECURSIVE Join(_, _)
Join(parts, d) ==
  IF Len(parts) = 0 THEN <<>>
  ELSE IF Len(parts) = 1 THEN parts[1]
  ELSE parts[1] \o <<d>> \o Join(Tail(parts), d)

(***************************************************************************)
(* WHATWG URL                                                              *)
(***************************************************************************)
BadUrl ==
  [ok |-> FALSE, origin |-> "", path |-> <<>>, hasQ |-> FALSE, query |-> <<>>,
   hasF |-> FALSE, frag |-> <<>>]

\* new URL(s): the parser strips leading and trailing spaces, needs a scheme
\* and a host (an origin token), reads the path up to "?" or "#", the query
\* up to "#", and the fragment to the end.  An empty path becomes "/".  The
\* query and the fragment are kept as written (their percent-encode sets
\* hold none of the delimiters).  A string without an origin at its start,
\* or with a delimiter or a percent-escape inside the host and path part,
\* throws (ok = FALSE).
ParseUrl(str) ==
  LET s == Trim(str)
      rest == Tail(s)
      h == IndexOf(rest, "#")
      beforeF == IF h = 0 THEN rest ELSE Take(rest, h - 1)
      q == IndexOf(beforeF, "?")
      pathPart == IF q = 0 THEN beforeF ELSE Take(beforeF, q - 1)
  IN IF Len(s) = 0 THEN BadUrl
     ELSE IF s[1] \notin Origins THEN BadUrl
     ELSE IF \E i \in 1..Len(pathPart) : pathPart[i] \notin PathTokens THEN BadUrl
     ELSE IF \E i \in 1..Len(rest) : rest[i] = " " THEN BadUrl
     ELSE [ok |-> TRUE,
           origin |-> s[1],
           path |-> IF Len(pathPart) = 0 THEN <<"/">> ELSE pathPart,
           hasQ |-> q # 0,
           query |-> IF q = 0 THEN <<>> ELSE Drop(beforeF, q),
           hasF |-> h # 0,
           frag |-> IF h = 0 THEN <<>> ELSE Drop(rest, h)]

\* URL.prototype.toString (href): the URL serializer.
Href(u) ==
  <<u.origin>> \o u.path
    \o (IF u.hasQ THEN <<"?">> \o u.query ELSE <<>>)
    \o (IF u.hasF THEN <<"#">> \o u.frag ELSE <<>>)

\* URL.prototype.hash getter: "" for a null or empty fragment.
HashOf(u) == IF u.hasF /\ Len(u.frag) > 0 THEN <<"#">> \o u.frag ELSE <<>>

\* URL.prototype.hash setter: "" sets the fragment to null, otherwise one
\* leading "#" is dropped.
SetHash(u, h) ==
  IF Len(h) = 0 THEN [u EXCEPT !.hasF = FALSE, !.frag = <<>>]
  ELSE [u EXCEPT !.hasF = TRUE, !.frag = IF h[1] = "#" THEN Tail(h) ELSE h]

\* URL.prototype.search setter: "" sets the query to null, otherwise one
\* leading "?" is dropped.
SetSearch(u, q) ==
  IF Len(q) = 0 THEN [u EXCEPT !.hasQ = FALSE, !.query = <<>>]
  ELSE [u EXCEPT !.hasQ = TRUE, !.query = IF q[1] = "?" THEN Tail(q) ELSE q]

(***************************************************************************)
(* URLSearchParams                                                         *)
(***************************************************************************)
\* One name=value segment: split at the first "=", both sides decoded.
ParsePair(seg) ==
  LET e == IndexOf(seg, "=")
  IN IF e = 0 THEN [k |-> Dec(seg), v |-> <<>>]
     ELSE [k |-> Dec(Take(seg, e - 1)), v |-> Dec(Drop(seg, e))]

RECURSIVE ParsePairs(_)
ParsePairs(segs) ==
  IF Len(segs) = 0 THEN <<>>
  ELSE IF Len(segs[1]) = 0 THEN ParsePairs(Tail(segs))
  ELSE <<ParsePair(segs[1])>> \o ParsePairs(Tail(segs))

\* The application/x-www-form-urlencoded parser: split on "&", skip empty
\* segments.
ParseQuery(q) == ParsePairs(Split(q, "&"))

RECURSIVE SerPairs(_)
SerPairs(list) ==
  IF Len(list) = 0 THEN <<>>
  ELSE Enc(list[1].k) \o <<"=">> \o Enc(list[1].v)
         \o (IF Len(list) > 1 THEN <<"&">> \o SerPairs(Tail(list)) ELSE <<>>)

\* URLSearchParams.prototype.toString
SerQuery(list) == SerPairs(list)

\* url.searchParams as a list of pairs.
SearchParams(u) == ParseQuery(u.query)

\* URLSearchParams.prototype.get: the first value of the name, or null
\* (modelled as the empty string, which the callers treat alike).
Get(list, name) ==
  IF \E i \in 1..Len(list) : list[i].k = <<name>>
  THEN list[CHOOSE i \in 1..Len(list) :
              list[i].k = <<name>> /\ \A j \in 1..(i - 1) : list[j].k # <<name>>].v
  ELSE <<>>

DeleteKeyReversing(list, key) ==
  LET NotKey(p) == p.k # key
      kept == SelectSeq(list, NotKey)
  IN [i \in 1..Len(kept) |-> kept[Len(kept) + 1 - i]]

\* URLSearchParams.prototype.delete on a list.
DeleteKey(list, key) ==
  LET NotKey(p) == p.k # key IN SelectSeq(list, NotKey)

\* url.searchParams.delete(key): removes every pair of that name and writes
\* the serialized list back as the URL's query (null when the list is empty).
DeleteParam(u, key) ==
  LET list == DeleteKey(SearchParams(u), key)
  IN IF Len(list) = 0 THEN [u EXCEPT !.hasQ = FALSE, !.query = <<>>]
     ELSE [u EXCEPT !.hasQ = TRUE, !.query = SerQuery(list)]

Keys(list) == [i \in 1..Len(list) |-> list[i].k]

(***************************************************************************)
(* trackingConstants.js                                                    *)
(***************************************************************************)
\* BAD_PARAMS_LIST: the static tracking-parameter names, lower-cased.
BAD_PARAMS_LIST == {"utm_source", "utm_medium", "utm_content", "gclid", "fbclid"}

\* REFERRAL_PARAMS_LIST: the static referral/affiliate names, lower-cased.
REFERRAL_PARAMS_LIST == {"ref", "affid"}

(***************************************************************************)
(* striptracking.js                                                        *)
(***************************************************************************)
Null == "null"
Undefined == "undefined"
NoError == "none"
InvalidURL == "Invalid URL"
RulesUnavailable == "Rules not available"

\* the call ended by throwing a TypeError instead of returning a result
Thrown == "TypeError"

\* const keep = new Set(keepParams.map((p) => String(p).toLowerCase()))
KeepSet(o) == {LowerTok(p) : p \in o.keepParams}

\* BAD_PARAMS after the referral list and extraBadParams have been added.
BadParams(o) ==
  BAD_PARAMS_LIST
    \cup (IF o.removeReferral THEN REFERRAL_PARAMS_LIST ELSE {})
    \cup {LowerTok(p) : p \in o.extraBadParams}

\* Set.prototype.has for a string (a token sequence) in a set of names.
HasName(set, k) == Len(k) = 1 /\ k[1] \in set

ShouldRemoveNoKeep(key, o) ==
  LET k == Lower(key)
  IN StartsWithUtm(k) \/ HasName(BadParams(o), k)

ShouldRemoveNoUtm(key, o) ==
  LET k == Lower(key)
  IN ~HasName(KeepSet(o), k) /\ HasName(BadParams(o), k)

ShouldRemoveAlwaysReferral(key, o) ==
  LET k == Lower(key)
  IN IF HasName(KeepSet(o), k) THEN FALSE
     ELSE IF StartsWithUtm(k) THEN TRUE
     ELSE HasName(BadParams([o EXCEPT !.removeReferral = TRUE]), k)

shouldRemove(key, o) ==
  LET k == Lower(key)
  IN IF HasName(KeepSet(o), k) THEN FALSE
     ELSE IF StartsWithUtm(k) THEN TRUE
     ELSE HasName(BadParams(o), k)

\* hostname.endsWith("google.com") || hostname.endsWith("google.com.au")
IsGoogleHost(origin) == origin = GoogleOrigin

\* the first truthy (non-empty) of two strings: a || b
OrElse(a, b) == IF Len(a) > 0 THEN a ELSE b

UnwrapQBeforeUrl(urlStr) ==
  LET u == ParseUrl(urlStr)
      sp == SearchParams(u)
      candidate == OrElse(Get(sp, "q"), Get(sp, "url"))
  IN IF ~u.ok THEN [url |-> urlStr, from |-> Null]
     ELSE IF IsGoogleHost(u.origin) /\ u.path = <<"/url">> /\ Len(candidate) > 0
       THEN [url |-> candidate, from |-> "google"]
     ELSE IF (u.origin = FacebookOrigin \/ u.path = <<"/l.php">>)
             /\ Len(Get(sp, "u")) > 0
       THEN [url |-> Get(sp, "u"), from |-> "facebook"]
     ELSE IF u.origin = InstagramOrigin /\ Len(Get(sp, "u")) > 0
       THEN [url |-> Get(sp, "u"), from |-> "instagram"]
     ELSE [url |-> urlStr, from |-> Null]

UnwrapInstagramFirst(urlStr) ==
  LET u == ParseUrl(urlStr)
      sp == SearchParams(u)
      candidate == OrElse(Get(sp, "url"), Get(sp, "q"))
  IN IF ~u.ok THEN [url |-> urlStr, from |-> Null]
     ELSE IF u.origin = InstagramOrigin /\ Len(Get(sp, "u")) > 0
       THEN [url |-> Get(sp, "u"), from |-> "instagram"]
     ELSE IF (u.origin = FacebookOrigin \/ u.path = <<"/l.php">>)
             /\ Len(Get(sp, "u")) > 0
       THEN [url |-> Get(sp, "u"), from |-> "facebook"]
     ELSE IF IsGoogleHost(u.origin) /\ u.path = <<"/url">> /\ Len(candidate) > 0
       THEN [url |-> candidate, from |-> "google"]
     ELSE [url |-> urlStr, from |-> Null]

UnwrapTwoHops(urlStr) ==
  LET Second(a, b) ==
        IF a.from # Null /\ b.from # Null THEN [url |-> b.url, from |-> a.from]
        ELSE a
      First(a) == Second(a, UnwrapQBeforeUrl(a.url))
  IN First(UnwrapQBeforeUrl(urlStr))

\* try { const u = new URL(urlStr); Google, then Facebook, then Instagram;
\*       return { url: urlStr, from: null } } catch { the same }
unwrapKnownRedirectors(urlStr) ==
  LET u == ParseUrl(urlStr)
      sp == SearchParams(u)
      candidate == OrElse(Get(sp, "url"), Get(sp, "q"))
  IN IF ~u.ok THEN [url |-> urlStr, from |-> Null]
     ELSE IF IsGoogleHost(u.origin) /\ u.path = <<"/url">> /\ Len(candidate) > 0
       THEN [url |-> candidate, from |-> "google"]
     ELSE IF (u.origin = FacebookOrigin \/ u.path = <<"/l.php">>)
             /\ Len(Get(sp, "u")) > 0
       THEN [url |-> Get(sp, "u"), from |-> "facebook"]
     ELSE IF u.origin = InstagramOrigin /\ Len(Get(sp, "u")) > 0
       THEN [url |-> Get(sp, "u"), from |-> "instagram"]
     ELSE [url |-> urlStr, from |-> Null]

\* for (const key of Array.from(urlObj.searchParams.keys()))
\*   if (shouldRemove(key)) { urlObj.searchParams.delete(key); changed = true; }
RECURSIVE RemoveQueryLoop(_, _, _, _)
RemoveQueryLoop(u, keys, changed, o) ==
  IF Len(keys) = 0 THEN [u |-> u, changed |-> changed]
  ELSE IF shouldRemove(keys[1], o)
    THEN RemoveQueryLoop(DeleteParam(u, keys[1]), Tail(keys), TRUE, o)
  ELSE RemoveQueryLoop(u, Tail(keys), changed, o)

\* the same loop on hashParams
RECURSIVE RemoveHashLoop(_, _, _, _)
RemoveHashLoop(list, keys, hashChanged, o) ==
  IF Len(keys) = 0 THEN [list |-> list, changed |-> hashChanged]
  ELSE IF shouldRemove(keys[1], o)
    THEN RemoveHashLoop(DeleteKey(list, keys[1]), Tail(keys), TRUE, o)
  ELSE RemoveHashLoop(list, Tail(keys), hashChanged, o)

\* urlObj.hash.replace(/^#\??/, "")
StripHashPrefix(h) ==
  LET a == IF Len(h) > 0 /\ h[1] = "#" THEN Tail(h) ELSE h
  IN IF Len(a) > 0 /\ a[1] = "?" THEN Tail(a) ELSE a

CleanHashSkip(u, changed, o) == [u |-> u, changed |-> changed]

CleanHashKeepFlag(u, changed, o) ==
  LET Cleaned(h, r) ==
        IF Len(h) > 0 /\ IndexOf(h, "=") # 0 /\ r.changed
        THEN [u |-> SetHash(u, IF Len(SerQuery(r.list)) > 0
                               THEN <<"#">> \o SerQuery(r.list) ELSE <<>>),
              changed |-> changed]
        ELSE [u |-> u, changed |-> changed]
      Looped(h, hashParams) ==
        Cleaned(h, RemoveHashLoop(hashParams, Keys(hashParams), FALSE, o))
      Parsed(h) == Looped(h, ParseQuery(StripHashPrefix(h)))
  IN Parsed(HashOf(u))

\* the fragment step of stripTracking
CleanHash(u, changed, o) ==
  LET h == HashOf(u)
      hashParams == ParseQuery(StripHashPrefix(h))
      r == RemoveHashLoop(hashParams, Keys(hashParams), FALSE, o)
      nextHash == SerQuery(r.list)
  IN IF Len(h) > 0 /\ IndexOf(h, "=") # 0 /\ r.changed
     THEN [u |-> SetHash(u, IF Len(nextHash) > 0 THEN <<"#">> \o nextHash ELSE <<>>),
           changed |-> TRUE]
     ELSE [u |-> u, changed |-> changed]

\* s.replace(/\?$/, "").replace(/#$/, "")
StripTrailing(s) ==
  LET a == IF Len(s) > 0 /\ s[Len(s)] = "?" THEN Take(s, Len(s) - 1) ELSE s
  IN IF Len(a) > 0 /\ a[Len(a)] = "#" THEN Take(a, Len(a) - 1) ELSE a

\* urlObj.search = normalizedSearch ? "?" + normalizedSearch : "";
\* urlObj.toString().replace(/\?$/, "").replace(/#$/, "")
Normalize(u) ==
  LET normalizedSearch == SerQuery(SearchParams(u))
      v == SetSearch(u, IF Len(normalizedSearch) > 0
                        THEN <<"?">> \o normalizedSearch ELSE <<>>)
  IN StripTrailing(Href(v))

\* the URL stripTracking parses after the one-hop unwrap
WorkingUrl(inp) == ParseUrl(unwrapKnownRedirectors(Trim(inp)).url)

stripTracking(inp, o) ==
  LET Finish(from, h) ==
        [url |-> Normalize(h.u), changed |-> h.changed,
         unwrappedFrom |-> from, error |-> NoError]
      Clean(from, q) == Finish(from, CleanHash(q.u, q.changed, o))
      Parsed(from, urlObj) ==
        IF ~urlObj.ok
        THEN [url |-> inp, changed |-> FALSE, unwrappedFrom |-> Undefined,
              error |-> InvalidURL]
        ELSE Clean(from, RemoveQueryLoop(urlObj, Keys(SearchParams(urlObj)),
                                         from # Null, o))
      Unwrapped(unwrapped) == Parsed(unwrapped.from, ParseUrl(unwrapped.url))
  IN Unwrapped(unwrapKnownRedirectors(Trim(inp)))

(***************************************************************************)
(* Regular expressions of a ruleset                                        *)
(*                                                                         *)
(* A regex source is modelled by its syntax tree:                          *)
(*   "lit"   the literal text s, with ^ in front if bol and $ behind if    *)
(*           eol; an empty s is the empty source, which matches anywhere;  *)
(*   "cap"   a separator ? or &, the name s[1], "=", and one capture group *)
(*           that takes the value up to the next & or #;                   *)
(*   "undef" the value undefined: new RegExp(undefined) is /(?:)/;         *)
(*   "bad"   a source new RegExp rejects.                                  *)
(***************************************************************************)
Lit(s) == [k |-> "lit", s |-> s, bol |-> FALSE, eol |-> FALSE]
Anchored(s) == [k |-> "lit", s |-> s, bol |-> TRUE, eol |-> TRUE]
Cap(name) == [k |-> "cap", s |-> <<name>>, bol |-> FALSE, eol |-> FALSE]
UndefRe == [k |-> "undef", s |-> <<>>, bol |-> FALSE, eol |-> FALSE]
BadRe == [k |-> "bad", s |-> <<>>, bol |-> FALSE, eol |-> FALSE]

\* safeRegExp returns null for a source that does not compile
Compiles(re) == re.k # "bad"

\* the literal s stands at position i of the subject (flag "i")
LitAt(s, subj, i) ==
  /\ i + Len(s) - 1 <= Len(subj)
  /\ \A j \in 1..Len(s) : LowerTok(subj[i + j - 1]) = LowerTok(s[j])

\* the positions at which the regex matches the subject
MatchStarts(re, subj) ==
  CASE re.k = "lit" ->
         {i \in 1..(Len(subj) + 1) :
            /\ LitAt(re.s, subj, i)
            /\ (re.bol => i = 1)
            /\ (re.eol => i + Len(re.s) - 1 = Len(subj))}
    [] re.k = "cap" ->
         {i \in 1..Len(subj) :
            /\ subj[i] \in {"?", "&"}
            /\ LitAt(<<re.s[1], "=">>, subj, i + 1)}
    [] re.k = "undef" -> 1..(Len(subj) + 1)
    [] OTHER -> {}

\* RegExp.prototype.test
Test(re, subj) == MatchStarts(re, subj) # {}

Min(S) == CHOOSE x \in S : \A y \in S : x <= y

\* the text [^&#]* matches from position i on
RECURSIVE ValueAt(_, _)
ValueAt(subj, i) ==
  IF i > Len(subj) \/ subj[i] \in {"&", "#"} THEN <<>>
  ELSE <<subj[i]>> \o ValueAt(subj, i + 1)

\* RegExp.prototype.exec(...)?.[1]: capture group 1 of the first match, the
\* empty string when there is no match or no group
Group1(re, subj) ==
  IF re.k = "cap" /\ Test(re, subj)
  THEN ValueAt(subj, Min(MatchStarts(re, subj)) + 3)
  ELSE <<>>

\* the length of the match that starts at position i
MatchLen(re, subj, i) ==
  CASE re.k = "lit" -> Len(re.s)
    [] re.k = "cap" -> 3 + Len(ValueAt(subj, i + 3))
    [] OTHER -> 0

\* String.prototype.replace(re, "") with the flags "ig": every match, left
\* to right and without overlap, is deleted
RECURSIVE ReplaceFrom(_, _, _)
ReplaceFrom(re, subj, i) ==
  IF i > Len(subj) THEN <<>>
  ELSE IF i \in MatchStarts(re, subj) /\ MatchLen(re, subj, i) > 0
    THEN ReplaceFrom(re, subj, i + MatchLen(re, subj, i))
  ELSE <<subj[i]>> \o ReplaceFrom(re, subj, i + 1)

ReplaceAll(re, subj) == ReplaceFrom(re, subj, 1)

\* decodeURIComponent on one token: percent-escapes only, "+" stays
DecodeURIComponent(s) == [i \in 1..Len(s) |-> IF s[i] = "+" THEN "+" ELSE DecTok(s[i])]

(***************************************************************************)
(* clearurls-apply.js                                                      *)
(***************************************************************************)
\* provider.exceptions.some(ex => { re = safeRegExp(ex); return re ? re.test(s) : false })
IsExceptedNever(provider, str) == FALSE

IsExcepted(provider, str) ==
  \E i \in 1..Len(provider.exceptions) :
    Compiles(provider.exceptions[i]) /\ Test(provider.exceptions[i], str)

\* const urlRe = safeRegExp(provider.urlPattern, "i");
\* if (!urlRe || !urlRe.test(str)) continue;  ... if (isExcepted) continue;
Applies(provider, str) ==
  /\ Compiles(provider.urlPattern)
  /\ Test(provider.urlPattern, str)
  /\ ~IsExcepted(provider, str)

RECURSIVE RedirLoopAbortOnBad(_, _, _)
RedirLoopAbortOnBad(st, redirs, urlStr) ==
  IF Len(redirs) = 0 THEN st
  ELSE LET re == redirs[1]
           target == Group1(re, urlStr)
           next == ParseUrl(DecodeURIComponent(target))
       IN IF ~Compiles(re) THEN st
          ELSE IF Len(target) > 0 /\ next.ok
          THEN RedirLoopAbortOnBad([u |-> next, changed |-> TRUE], Tail(redirs), urlStr)
          ELSE RedirLoopAbortOnBad(st, Tail(redirs), urlStr)

\* the redirections of one provider, all run against the same urlStr
RECURSIVE RedirLoop(_, _, _)
RedirLoop(st, redirs, urlStr) ==
  IF Len(redirs) = 0 THEN st
  ELSE LET re == redirs[1]
           target == Group1(re, urlStr)
           next == ParseUrl(DecodeURIComponent(target))
       IN IF Compiles(re) /\ Len(target) > 0 /\ next.ok
          THEN RedirLoop([u |-> next, changed |-> TRUE], Tail(redirs), urlStr)
          ELSE RedirLoop(st, Tail(redirs), urlStr)

\* 1) Redirections
RECURSIVE RedirectionPass(_, _, _)
RedirectionPass(st, providers, urlStr) ==
  IF Len(providers) = 0 THEN st
  ELSE IF Applies(providers[1], urlStr)
    THEN RedirectionPass(RedirLoop(st, providers[1].redirections, urlStr),
                         Tail(providers), urlStr)
  ELSE RedirectionPass(st, Tail(providers), urlStr)

\* an entry is a plain name when its text holds no regex metacharacter, no
\* "=", no "[" and no "\b": a literal without anchors made of name tokens
NameTokens ==
  {"utm_source", "utm_new", "UTM_New", "gclid", "ref", "REF", "custom_param",
   "Custom_Param", "q", "u", "url", "v", "sec"}

IsPlainName(entry) ==
  /\ entry.k = "lit"
  /\ ~entry.bol /\ ~entry.eol
  /\ \A i \in 1..Len(entry.s) : entry.s[i] \in NameTokens

\* const rawEntries = [...asList(provider.rules),
\*                     ...(!allowReferral ? asList(provider.referralMarketing) : [])]
RawEntriesIgnoreToggle(provider, o) == provider.rules \o provider.referralMarketing

RawEntries(provider, o) ==
  provider.rules \o (IF ~o.allowReferral THEN provider.referralMarketing ELSE <<>>)

EntryRemovesKeyAlone(entry, lower) ==
  IF IsPlainName(entry) THEN Lower(entry.s) = lower
  ELSE Compiles(entry) /\ Test(entry, lower)

\* nameSet.has(lower) || regexList.some(re => re.test(lower) || re.test(`${lower}=`))
EntryRemoves(entry, lower) ==
  IF IsPlainName(entry) THEN Lower(entry.s) = lower
  ELSE /\ Compiles(entry)
       /\ (Test(entry, lower) \/ Test(entry, lower \o <<"=">>))

RemovesKey(entries, key) ==
  \E i \in 1..Len(entries) : EntryRemoves(entries[i], Lower(key))

\* for (const key of [...workingUrl.searchParams.keys()]) ...
RECURSIVE RuleLoop(_, _, _)
RuleLoop(st, keys, entries) ==
  IF Len(keys) = 0 THEN st
  ELSE IF RemovesKey(entries, keys[1])
    THEN RuleLoop([u |-> DeleteParam(st.u, keys[1]), changed |-> TRUE],
                  Tail(keys), entries)
  ELSE RuleLoop(st, Tail(keys), entries)

RECURSIVE RawRuleLoopMarkAlways(_, _)
RawRuleLoopMarkAlways(st, raws) ==
  IF Len(raws) = 0 THEN st
  ELSE LET re == raws[1]
           before == Href(st.u)
           after == ReplaceAll(re, before)
       IN IF Compiles(re) /\ after # before
          THEN RawRuleLoopMarkAlways(
                 [u |-> IF ParseUrl(after).ok THEN ParseUrl(after) ELSE st.u,
                  changed |-> TRUE], Tail(raws))
          ELSE RawRuleLoopMarkAlways(st, Tail(raws))

\* rawRules: full-URL regex replacements
RECURSIVE RawRuleLoop(_, _)
RawRuleLoop(st, raws) ==
  IF Len(raws) = 0 THEN st
  ELSE LET re == raws[1]
           before == Href(st.u)
           after == ReplaceAll(re, before)
       IN IF Compiles(re) /\ after # before /\ ParseUrl(after).ok
          THEN RawRuleLoop([u |-> ParseUrl(after), changed |-> TRUE], Tail(raws))
          ELSE RawRuleLoop(st, Tail(raws))

\* the body of the parameter-removal loop for one provider
ProviderStep(st, provider, o) ==
  IF ~Applies(provider, Href(st.u)) THEN st
  ELSE RawRuleLoop(
         RuleLoop(st, Keys(SearchParams(st.u)), RawEntries(provider, o)),
         provider.rawRules)

\* 2) Parameter removal: rules + referralMarketing
RECURSIVE RemovalPass(_, _, _)
RemovalPass(st, providers, o) ==
  IF Len(providers) = 0 THEN st
  ELSE RemovalPass(ProviderStep(st, providers[1], o), Tail(providers), o)

\* normalizeUrl
normalizeUrl(u) == Normalize(u)

\* !rulesJson || typeof rulesJson !== "object" || !rulesJson.providers
RulesMissingOnlyNull(r) == r.kind \in {"null", "undefined"}

RulesMissing(r) == r.kind # "object" \/ ~r.hasProviders

\* for (const provider of providers) { safeRegExp(provider.urlPattern, "i") ...
\* reading a property of a provider that is null throws a TypeError, which
\* nothing in applyClearUrls catches
HasNullProvider(providers) == \E i \in 1..Len(providers) : providers[i].isNull

ApplyErrorTrimmed(inputUrl, error) ==
  [url |-> Trim(inputUrl), changed |-> FALSE, unwrappedFrom |-> Undefined,
   error |-> error]

\* return { url: inputUrl, changed: false, error }
ApplyError(inputUrl, error) ==
  [url |-> inputUrl, changed |-> FALSE, unwrappedFrom |-> Undefined, error |-> error]

applyClearUrls(inputUrl, rulesJson, o) ==
  LET workingUrl == ParseUrl(Trim(inputUrl))
      urlStr == Href(workingUrl)
      st0 == [u |-> workingUrl, changed |-> FALSE]
      st1 == RedirectionPass(st0, rulesJson.providers, urlStr)
      st2 == RemovalPass(st1, rulesJson.providers, o)
  IN IF RulesMissing(rulesJson) THEN ApplyError(inputUrl, RulesUnavailable)
     ELSE IF ~workingUrl.ok THEN ApplyError(inputUrl, InvalidURL)
     ELSE IF HasNullProvider(rulesJson.providers) THEN ApplyError(<<>>, Thrown)
     ELSE [url |-> normalizeUrl(st2.u), changed |-> st2.changed,
           unwrappedFrom |-> Undefined, error |-> NoError]

(***************************************************************************)
(* Inputs                                                                  *)
(***************************************************************************)
\* how many plain name=value parameters an input URL carries at most
MaxParams == 2

SeqsUpTo(S, n) == UNION {[1..k -> S] : k \in 0..n}

\* plain parameters: a utm_ name that is in no list (upper-cased), a listed
\* tracking name, a referral name, and a name no list knows
PlainKeys == {"UTM_New", "gclid", "ref", "custom_param"}

PlainSegs == {<<k, "=", "v">> : k \in PlainKeys}

\* the plain parameters a redirector link carries beside its target
WrapperSegs == {<<k, "=", "v">> : k \in {"ref", "custom_param"}}

PlainTarget == <<ExampleOrigin, "/page", "?", "gclid", "=", "v">>
EncodedTarget ==
  Enc(<<ExampleOrigin, "/page", "?", "ref", "=", "v", "&", "custom_param", "=", "v">>)
NestedTarget == <<FacebookOrigin, "/l.php", "?", "u", "=", ExampleOrigin, "/page">>
BadTarget == <<"v">>

\* the redirect-target parameters of an input
RedirParts ==
  { <<>>,
    << <<"q", "=">> \o PlainTarget >>,
    << <<"q", "=">> \o EncodedTarget >>,
    << <<"q", "=">> \o NestedTarget >>,
    << <<"q", "=">> \o BadTarget >>,
    << <<"url", "=">> \o EncodedTarget, <<"q", "=">> \o PlainTarget >>,
    << <<"url", "=">> \o BadTarget, <<"q", "=">> \o PlainTarget >>,
    << <<"u", "=">> \o PlainTarget >>,
    << <<"u", "=">> >> }

Sites ==
  { <<GoogleOrigin, "/url">>, <<GoogleOrigin, "/l.php">>, <<FacebookOrigin, "/page">>,
    <<InstagramOrigin, "/page">>, <<InstagramOrigin, "/l.php">>,
    <<ExampleOrigin, "/l.php">>, <<ExampleOrigin, "/page">>,
    <<ExampleOrigin>> }

PlainSites == { <<ExampleOrigin, "/page">>, <<ExampleOrigin>> }

\* what follows the query: nothing, or a fragment
Tails ==
  { <<>>, <<"#">>, <<"#", "sec">>, <<"#", "?", "?">>,
    <<"#", "utm_content", "=", "v">>,
    <<"#", "?", "utm_content", "=", "v", "&", "sec", "=", "v">> }

WrapperTails == { <<>>, <<"#", "utm_content", "=", "v">> }

WithQuery(site, segs, tail) ==
  site \o (IF Len(segs) = 0 THEN <<>> ELSE <<"?">> \o Join(segs, "&")) \o tail

\* the end-to-end example of the documentation
EndToEndInput ==
  <<ExampleOrigin, "/page", "?", "utm_source", "=", "google", "&", "utm_medium",
    "=", "cpc", "&", "custom_param", "=", "value", "#", "utm_content", "=",
    "ad_banner">>

GarbageInputs == { <<>>, <<"not", " ", "a", " ", "url">>, <<"v">> }

\* the input with or without spaces around it
Pad(p, str) == IF p THEN <<" ">> \o str \o <<" ">> ELSE str

\* a plain URL, a redirector link, a URL with an empty query, the documented
\* example, or no URL
IsInput(str) ==
  \/ \E site \in PlainSites, segs \in SeqsUpTo(PlainSegs, MaxParams),
        tail \in Tails, p \in BOOLEAN :
       str = Pad(p, WithQuery(site, segs, tail))
  \/ \E site \in Sites, r \in RedirParts \ {<<>>},
        segs \in SeqsUpTo(WrapperSegs, MaxParams), tail \in WrapperTails,
        p \in BOOLEAN :
       str = Pad(p, WithQuery(site, r \o segs, tail))
  \/ \E tail \in {<<"?">>, <<"?", "#">>}, p \in BOOLEAN :
       str = Pad(p, <<ExampleOrigin, "/page">> \o tail)
  \/ \E p \in BOOLEAN : str = Pad(p, EndToEndInput)
  \/ \E g \in GarbageInputs, p \in BOOLEAN : str = Pad(p, g)

StripOpts ==
  [keepParams : {{}, {"REF", "q"}, {"utm_new"}},
   extraBadParams : {{}, {"Custom_Param"}},
   removeReferral : BOOLEAN,
   allowReferral : {FALSE}]

NoResult ==
  [url |-> <<>>, changed |-> FALSE, unwrappedFrom |-> Undefined, error |-> NoError]

NoRules == [kind |-> "undefined", hasProviders |-> FALSE, providers |-> <<>>]

(***************************************************************************)
(* background.js: download, verify and persist the rules                   *)
(***************************************************************************)
\* how many refresh attempts are started at most
MaxAttempts == 3

\* the runs of downloadAndCacheRules that can be in progress at a time
Procs == {1, 2}

NetworkError == "network error"
HashMismatch == "hash mismatch"
JsonParseError == "JSON parse error"

\* what a GET of RULES_URL can deliver: two rules documents and a text that
\* is no JSON
RulesTexts == {"text1", "text2", "junk"}

\* what a GET of HASH_URL can deliver: the digests of the texts, one of them
\* also in upper case with a line end, and the digest of no text
HashTexts == {"h1", "H1 ", "h2", "hjunk", "h0"}

\* sha256Hex(text): lower-case hex digest
sha256Hex(text) ==
  CASE text = "text1" -> "h1"
    [] text = "text2" -> "h2"
    [] OTHER -> "hjunk"

\* upstreamHashRaw.trim().toLowerCase()
TrimLower(raw) == IF raw = "H1 " THEN "h1" ELSE raw

\* JSON.parse(rulesText) returns (TRUE) or throws (FALSE)
IsJson(text) == text \in {"text1", "text2"}

\* JSON.parse(rulesText)
JsonParse(text) ==
  CASE text = "text1" -> "rules1"
    [] text = "text2" -> "rules2"
    [] OTHER -> ""

\* chrome.storage.local holds nothing under STORAGE_KEY
NoPayload == [present |-> FALSE, rules |-> "", ts |-> 0, hash |-> Null]

\* { rules, ts: Date.now(), hash: actualHash }; the time is the number of
\* attempts started so far
Payload(text, now) ==
  [present |-> TRUE, rules |-> JsonParse(text), ts |-> now, hash |-> sha256Hex(text)]

\* cached?.hash ?? null
CachedHash(cached) == IF cached.present THEN cached.hash ELSE Null

NoReturn == [returned |-> FALSE, rules |-> "", updated |-> FALSE]

\* a run that has not started; i is the index handleFailure reads, result
\* the value ensureFreshRules returns
IdleRun ==
  [pc |-> "idle", cached |-> NoPayload, upstreamHash |-> "", rulesText |-> "",
   askedRules |-> FALSE, error |-> NoError, ret |-> NoReturn, i |-> 0,
   result |-> "none"]

\* chrome.storage.local holds nothing under STATE_KEY
NoState == [present |-> FALSE, backoffIndex |-> 0]

\* no alarm is set: retry is the delay of the pending one-shot alarm in
\* minutes, 0 when there is none
NoAlarms == [daily |-> FALSE, retry |-> 0]

RefreshIdle ==
  /\ variant = "compare"
  /\ storage = NoPayload
  /\ runs = [p \in Procs |-> IdleRun]
  /\ attempts = 0
  /\ state = NoState
  /\ alarms = NoAlarms
  /\ streak = <<>>

\* throw new Error(...): the run ends without a return value
Throw(run, error) == [run EXCEPT !.pc = "failed", !.error = error]

SameHashNever(cachedHash, upstreamHash) == FALSE

\* if (cachedHash === upstreamHash)
SameHash(cachedHash, upstreamHash) == cachedHash = upstreamHash

AfterDownloadUnverified(run, text) ==
  IF ~IsJson(text) THEN Throw([run EXCEPT !.rulesText = text], JsonParseError)
  ELSE [run EXCEPT !.pc = "saveRules", !.rulesText = text]

\* the steps between the arrival of the rules text and saveRules: the digest
\* is compared with the upstream hash, then the text is parsed
AfterDownload(run, text) ==
  IF sha256Hex(text) # run.upstreamHash
  THEN Throw([run EXCEPT !.rulesText = text], HashMismatch)
  ELSE IF ~IsJson(text) THEN Throw([run EXCEPT !.rulesText = text], JsonParseError)
  ELSE [run EXCEPT !.pc = "saveRules", !.rulesText = text]

\* downloadAndCacheRules is called: the hash-compare variant reads the cache
\* first, the other variant requests the rules and the hash at once
StartDownload(p) ==
  /\ runs[p].pc \in {"idle", "done", "failed"}
  /\ attempts < MaxAttempts
  /\ attempts' = attempts + 1
  /\ runs' = [runs EXCEPT ![p] =
                IF variant = "compare" THEN [IdleRun EXCEPT !.pc = "loadCached"]
                ELSE [IdleRun EXCEPT !.pc = "fetchBoth", !.askedRules = TRUE]]
  /\ UNCHANGED <<variant, storage>>

\* const cached = await loadCached(); then fetchText(HASH_URL) is called
LoadCached(p) ==
  /\ runs[p].pc = "loadCached"
  /\ runs' = [runs EXCEPT ![p] = [@ EXCEPT !.pc = "fetchHash", !.cached = storage]]
  /\ UNCHANGED <<variant, storage, attempts>>

\* await fetchText(HASH_URL) ends: it throws, or the hashes are compared and
\* the run returns the cached rules or calls fetchText(RULES_URL)
HashArrives(p) ==
  /\ runs[p].pc = "fetchHash"
  /\ \E raw \in HashTexts \cup {NetworkError} :
       runs' = [runs EXCEPT ![p] =
         IF raw = NetworkError THEN Throw(@, NetworkError)
         ELSE IF SameHash(CachedHash(@.cached), TrimLower(raw))
           THEN [@ EXCEPT !.pc = "done", !.upstreamHash = TrimLower(raw),
                          !.ret = [returned |-> TRUE, rules |-> runs[p].cached.rules,
                                   updated |-> FALSE]]
         ELSE [@ EXCEPT !.pc = "fetchRules", !.upstreamHash = TrimLower(raw),
                        !.askedRules = TRUE]]
  /\ UNCHANGED <<variant, storage, attempts>>

\* await fetchText(RULES_URL) ends
RulesArrive(p) ==
  /\ runs[p].pc = "fetchRules"
  /\ \E text \in RulesTexts \cup {NetworkError} :
       runs' = [runs EXCEPT ![p] =
         IF text = NetworkError THEN Throw(@, NetworkError)
         ELSE AfterDownload(@, text)]
  /\ UNCHANGED <<variant, storage, attempts>>

\* await Promise.all([fetchText(RULES_URL), fetchText(HASH_URL)]) ends
BothArrive(p) ==
  /\ runs[p].pc = "fetchBoth"
  /\ \E text \in RulesTexts \cup {NetworkError}, raw \in HashTexts \cup {NetworkError} :
       runs' = [runs EXCEPT ![p] =
         IF text = NetworkError \/ raw = NetworkError THEN Throw(@, NetworkError)
         ELSE AfterDownload([@ EXCEPT !.upstreamHash = TrimLower(raw)], text)]
  /\ UNCHANGED <<variant, storage, attempts>>

\* await saveRules({ rules, ts: Date.now(), hash: actualHash }); return
SaveRules(p) ==
  /\ runs[p].pc = "saveRules"
  /\ storage' = Payload(runs[p].rulesText, attempts)
  /\ runs' = [runs EXCEPT ![p] =
                [@ EXCEPT !.pc = "done",
                          !.ret = [returned |-> TRUE, rules |-> JsonParse(runs[p].rulesText),
                                   updated |-> TRUE]]]
  /\ UNCHANGED <<variant, attempts>>

InitRefresh ==
  /\ variant \in {"compare", "always"}
  /\ storage = NoPayload
  /\ runs = [p \in Procs |-> IdleRun]
  /\ attempts = 0
  /\ state = NoState
  /\ alarms = NoAlarms
  /\ streak = <<>>
  /\ input = <<>>
  /\ opts = [keepParams |-> {}, extraBadParams |-> {}, removeReferral |-> TRUE,
             allowReferral |-> FALSE]
  /\ rules = NoRules
  /\ pc = "start"
  /\ res = NoResult
  /\ res2 = NoResult

NextRefresh ==
  \E p \in Procs :
    /\ \/ StartDownload(p)
       \/ LoadCached(p)
       \/ HashArrives(p)
       \/ RulesArrive(p)
       \/ BothArrive(p)
       \/ SaveRules(p)
    /\ UNCHANGED backoffVars
    /\ UNCHANGED cleanVars

SpecRefresh == InitRefresh /\ [][NextRefresh]_vars

(***************************************************************************)
(* background.js: ensureFreshRules, scheduling and backoff                 *)
(***************************************************************************)
\* how many times ensureFreshRules is called at most
MaxRuns == 7

RETRY_DELAYS_MIN == <<1, 5, 15, 30, 60>>

\* what calls ensureFreshRules: onInstalled, onStartup, onAlarm for the
\* daily and for the retry alarm, and the NUDELINK_REFRESH_RULES message
Triggers == {"installed", "startup", "dailyAlarm", "retryAlarm", "message"}

MathMin(a, b) == IF a < b THEN a ELSE b

\* (await chrome.storage.local.get(STATE_KEY))?.[STATE_KEY] ?? { backoffIndex: 0 }
loadState == IF state.present THEN state ELSE [present |-> TRUE, backoffIndex |-> 0]

\* a listener calls ensureFreshRules, which calls downloadAndCacheRules; an
\* alarm listener runs only when its alarm exists, and the one-shot retry
\* alarm is gone once it has fired
EnsureFreshRules(p) ==
  /\ runs[p].pc \in {"idle", "returned"}
  /\ attempts < MaxRuns
  /\ \E t \in Triggers :
       /\ t = "retryAlarm" => alarms.retry > 0
       /\ t = "dailyAlarm" => alarms.daily
       /\ alarms' = IF t = "retryAlarm" THEN [alarms EXCEPT !.retry = 0] ELSE alarms
  /\ attempts' = attempts + 1
  /\ runs' = [runs EXCEPT ![p] =
                IF variant = "compare" THEN [IdleRun EXCEPT !.pc = "loadCached"]
                ELSE [IdleRun EXCEPT !.pc = "fetchBoth", !.askedRules = TRUE]]
  /\ UNCHANGED <<variant, storage, state, streak>>
  /\ UNCHANGED cleanVars

\* the steps of downloadAndCacheRules inside ensureFreshRules
DownloadStep(p) ==
  /\ \/ LoadCached(p)
     \/ HashArrives(p)
     \/ RulesArrive(p)
     \/ BothArrive(p)
     \/ SaveRules(p)
  /\ UNCHANGED backoffVars
  /\ UNCHANGED cleanVars

\* handleSuccess: await saveState({ backoffIndex: 0 })
HandleSuccess(p) ==
  /\ runs[p].pc = "done"
  /\ state' = [present |-> TRUE, backoffIndex |-> 0]
  /\ streak' = <<>>
  /\ runs' = [runs EXCEPT ![p] = [@ EXCEPT !.pc = "scheduleDaily"]]
  /\ UNCHANGED <<variant, storage, attempts, alarms>>
  /\ UNCHANGED cleanVars

\* handleSuccess: scheduleDaily(); ensureFreshRules: return true
ScheduleDaily(p) ==
  /\ runs[p].pc = "scheduleDaily"
  /\ alarms' = [alarms EXCEPT !.daily = TRUE]
  /\ runs' = [runs EXCEPT ![p] = [@ EXCEPT !.pc = "returned", !.result = "true"]]
  /\ UNCHANGED <<variant, storage, attempts, state, streak>>
  /\ UNCHANGED cleanVars

\* handleFailure: const state = await loadState();
\* const i = Math.min(state.backoffIndex ?? 0, RETRY_DELAYS_MIN.length - 1)
LoadState(p) ==
  /\ runs[p].pc = "failed"
  /\ runs' = [runs EXCEPT ![p] =
                [@ EXCEPT !.pc = "saveState",
                          !.i = MathMin(loadState.backoffIndex, Len(RETRY_DELAYS_MIN) - 1)]]
  /\ UNCHANGED <<variant, storage, attempts, state, alarms, streak>>
  /\ UNCHANGED cleanVars

SaveStateNoCap(p) ==
  /\ runs[p].pc = "saveState"
  /\ state' = [present |-> TRUE, backoffIndex |-> runs[p].i + 1]
  /\ runs' = [runs EXCEPT ![p] = [@ EXCEPT !.pc = "scheduleRetry"]]
  /\ UNCHANGED <<variant, storage, attempts, alarms, streak>>
  /\ UNCHANGED cleanVars

SaveStateSameIndex(p) ==
  /\ runs[p].pc = "saveState"
  /\ state' = [present |-> TRUE, backoffIndex |-> runs[p].i]
  /\ runs' = [runs EXCEPT ![p] = [@ EXCEPT !.pc = "scheduleRetry"]]
  /\ UNCHANGED <<variant, storage, attempts, alarms, streak>>
  /\ UNCHANGED cleanVars

\* handleFailure: await saveState({ backoffIndex: Math.min(i + 1, length - 1) })
SaveState(p) ==
  /\ runs[p].pc = "saveState"
  /\ state' = [present |-> TRUE,
               backoffIndex |-> MathMin(runs[p].i + 1, Len(RETRY_DELAYS_MIN) - 1)]
  /\ runs' = [runs EXCEPT ![p] = [@ EXCEPT !.pc = "scheduleRetry"]]
  /\ UNCHANGED <<variant, storage, attempts, alarms, streak>>
  /\ UNCHANGED cleanVars

\* handleFailure: scheduleRetryIn(RETRY_DELAYS_MIN[i]); ensureFreshRules:
\* return false
\* handleFailure returning without the call of scheduleRetryIn
ScheduleRetryNoAlarm(p) ==
  /\ runs[p].pc = "scheduleRetry"
  /\ streak' = Append(streak, RETRY_DELAYS_MIN[runs[p].i + 1])
  /\ runs' = [runs EXCEPT ![p] = [@ EXCEPT !.pc = "returned", !.result = "false"]]
  /\ UNCHANGED <<variant, storage, attempts, state, alarms>>
  /\ UNCHANGED cleanVars

ScheduleRetry(p) ==
  /\ runs[p].pc = "scheduleRetry"
  /\ alarms' = [alarms EXCEPT !.retry = RETRY_DELAYS_MIN[runs[p].i + 1]]
  /\ streak' = Append(streak, RETRY_DELAYS_MIN[runs[p].i + 1])
  /\ runs' = [runs EXCEPT ![p] = [@ EXCEPT !.pc = "returned", !.result = "false"]]
  /\ UNCHANGED <<variant, storage, attempts, state>>
  /\ UNCHANGED cleanVars

\* one step of a run of ensureFreshRules after its call
RunStep(p) ==
  \/ DownloadStep(p)
  \/ HandleSuccess(p)
  \/ ScheduleDaily(p)
  \/ LoadState(p)
  \/ SaveState(p)
  \/ ScheduleRetry(p)

\* the extension after installation, nothing stored and no alarm set
InitBackoff == InitRefresh

\* the runs of ensureFreshRules follow each other: a listener is called when
\* the run before it has returned
NextBackoff ==
  \/ EnsureFreshRules(1)
  \/ RunStep(1)

SpecBackoff == InitBackoff /\ [][NextBackoff]_vars

\* the extension after j failed runs in a row, j = 0..4: the index is j, the
\* last retry alarm is pending or has fired
InitOverlap ==
  /\ variant \in {"compare", "always"}
  /\ storage = NoPayload
  /\ runs = [p \in Procs |-> IdleRun]
  /\ \E j \in 0..(Len(RETRY_DELAYS_MIN) - 1) :
       /\ attempts = j
       /\ state = IF j = 0 THEN NoState ELSE [present |-> TRUE, backoffIndex |-> j]
       /\ streak = Take(RETRY_DELAYS_MIN, j)
       /\ alarms \in {NoAlarms} \cup
            (IF j = 0 THEN {} ELSE {[daily |-> FALSE, retry |-> RETRY_DELAYS_MIN[j]]})
  /\ input = <<>>
  /\ opts = [keepParams |-> {}, extraBadParams |-> {}, removeReferral |-> TRUE,
             allowReferral |-> FALSE]
  /\ rules = NoRules
  /\ pc = "start"
  /\ res = NoResult
  /\ res2 = NoResult

\* two listeners call ensureFreshRules, each once; the two runs interleave
\* at their awaits in every way
NextOverlap ==
  \E p \in Procs :
    \/ (runs[p].pc = "idle" /\ EnsureFreshRules(p))
    \/ RunStep(p)

SpecOverlap == InitOverlap /\ [][NextOverlap]_vars

\* how many times ensureFreshRules is called at most when alarms are
\* delivered fairly
MaxRetryRuns == 3

\* chrome.alarms.onAlarm for RETRY_ALARM: the pending one-shot alarm fires
\* and its listener calls ensureFreshRules
RetryAlarmFires(p) ==
  /\ alarms.retry > 0
  /\ attempts < MaxRetryRuns
  /\ EnsureFreshRules(p)
  /\ alarms'.retry = 0

\* the listeners call ensureFreshRules at any time, also while a run is in
\* progress
NextRetry ==
  \E p \in Procs :
    \/ (attempts < MaxRetryRuns /\ EnsureFreshRules(p))
    \/ RunStep(p)

\* a pending retry alarm is delivered, and every await of a run settles: a
\* fetch resolves or rejects, a storage call returns
FairRetry ==
  /\ WF_vars(\E p \in Procs : RetryAlarmFires(p))
  /\ \A p \in Procs : WF_vars(RunStep(p))

SpecRetry == InitBackoff /\ [][NextRetry]_vars /\ FairRetry

(***************************************************************************)
(* The heuristic cleaner called on an input, then on its own output        *)
(***************************************************************************)
InitStrip ==
  /\ IsInput(input)
  /\ opts \in StripOpts
  /\ rules = NoRules
  /\ pc = "start"
  /\ res = NoResult
  /\ res2 = NoResult
  /\ RefreshIdle

CallStrip ==
  /\ pc = "start"
  /\ res' = stripTracking(input, opts)
  /\ pc' = "cleaned"
  /\ UNCHANGED <<input, opts, rules, res2>>
  /\ UNCHANGED refreshVars

RecallStrip ==
  /\ pc = "cleaned"
  /\ res.error = NoError
  /\ res2' = stripTracking(res.url, opts)
  /\ pc' = "recleaned"
  /\ UNCHANGED <<input, opts, rules, res>>
  /\ UNCHANGED refreshVars

NextStrip == CallStrip \/ RecallStrip

SpecStrip == InitStrip /\ [][NextStrip]_vars

(***************************************************************************)
(* The rule engine called on an input, then on its own output              *)
(***************************************************************************)
\* how many providers a ruleset holds at most
MaxProviders == 2

Provider(pat, exc, red, rul, refm, raw) ==
  [isNull |-> FALSE, urlPattern |-> pat, exceptions |-> exc, redirections |-> red,
   rules |-> rul, referralMarketing |-> refm, rawRules |-> raw]

\* example.com: a listed name, an anchored regex and a referral name
ExampleProvider ==
  Provider(Lit(<<ExampleOrigin>>), <<>>, <<>>,
           <<Lit(<<"gclid">>), BadRe, Anchored(<<"utm_new">>)>>,
           <<Lit(<<"REF">>)>>, <<>>)

\* every URL, except those that carry custom_param: a referral regex written
\* in the name= style
GlobalProvider ==
  Provider(Lit(<<>>), <<BadRe, Lit(<<"custom_param">>)>>, <<>>,
           <<Lit(<<"gclid">>)>>,
           <<Lit(<<"ref", "=">>)>>, <<>>)

\* every URL: removes custom_param
CustomProvider ==
  Provider(UndefRe, <<>>, <<>>, <<Lit(<<"custom_param">>)>>, <<>>, <<>>)

\* google.com: unwraps the q target
GoogleProvider ==
  Provider(Lit(<<GoogleOrigin>>), <<Lit(<<"/page">>)>>, <<BadRe, Cap("q")>>,
           <<>>, <<>>, <<>>)

\* example.com: raw rules, the second of which leaves no URL
RawProvider ==
  Provider(Lit(<<ExampleOrigin, "/page">>), <<>>, <<>>, <<>>, <<>>,
           <<Lit(<<"&", "ref", "=", "v">>), BadRe, Lit(<<ExampleOrigin>>)>>)

\* a urlPattern that does not compile
BrokenProvider ==
  Provider(BadRe, <<>>, <<Cap("q")>>, <<Lit(<<"ref">>)>>, <<>>, <<>>)

\* every URL: unwraps the q target, whatever the host
ChainProvider ==
  Provider(UndefRe, <<>>, <<Cap("q")>>, <<>>, <<>>, <<>>)

\* a providers entry that is null
NullProvider ==
  [Provider(UndefRe, <<>>, <<>>, <<>>, <<>>, <<>>) EXCEPT !.isNull = TRUE]

Providers ==
  {ExampleProvider, GlobalProvider, CustomProvider, GoogleProvider, RawProvider,
   BrokenProvider}

Rulesets ==
  { [kind |-> "object", hasProviders |-> TRUE, providers |-> ps] :
      ps \in SeqsUpTo(Providers, MaxProviders) }
  \cup
  { [kind |-> "object", hasProviders |-> TRUE, providers |-> ps] :
      ps \in { <<ChainProvider, ChainProvider>>, <<NullProvider>>,
               <<ExampleProvider, NullProvider>> } }
  \cup
  { [kind |-> k, hasProviders |-> FALSE, providers |-> <<>>] :
      k \in {"null", "undefined", "string", "object"} }

ApplySegs == {<<k, "=", "v">> : k \in {"gclid", "ref", "custom_param"}}

ApplyInputs ==
  { WithQuery(<<ExampleOrigin, "/page">>, segs, tail) :
      segs \in SeqsUpTo(ApplySegs, MaxParams), tail \in {<<>>, <<"#", "?", "?">>} }
  \cup
  { <<GoogleOrigin, "/url", "?", "q", "=">> \o t :
      t \in {Enc(PlainTarget), EncodedTarget, BadTarget,
             Enc(<<GoogleOrigin, "/url", "?", "q", "=">> \o EncodedTarget)} }
  \cup
  { <<" ", ExampleOrigin, "?", "UTM_New", "=", "v", "&", "REF", "=", "v", " ">>,
    <<GoogleOrigin, "/page", "?", "q", "=">> \o Enc(PlainTarget) }
  \cup GarbageInputs

ApplyOpts ==
  [keepParams : {{}, {"ref"}},
   extraBadParams : {{}},
   removeReferral : {TRUE},
   allowReferral : BOOLEAN]

InitApply ==
  /\ input \in ApplyInputs
  /\ opts \in ApplyOpts
  /\ rules \in Rulesets
  /\ pc = "start"
  /\ res = NoResult
  /\ res2 = NoResult
  /\ RefreshIdle

CallApply ==
  /\ pc = "start"
  /\ res' = applyClearUrls(input, rules, opts)
  /\ pc' = "applied"
  /\ UNCHANGED <<input, opts, rules, res2>>
  /\ UNCHANGED refreshVars

RecallApply ==
  /\ pc = "applied"
  /\ res.error = NoError
  /\ res2' = applyClearUrls(res.url, rules, opts)
  /\ pc' = "reapplied"
  /\ UNCHANGED <<input, opts, rules, res>>
  /\ UNCHANGED refreshVars

NextApply == CallApply \/ RecallApply

SpecApply == InitApply /\ [][NextApply]_vars

(***************************************************************************)
(* Both cleaners called on the same input                                  *)
(***************************************************************************)
\* inputs that are no absolute URL, bare and with spaces around them, and
\* some that are one
\* a query of five parameters with differing values, one name twice
LongQuery ==
  <<"custom_param", "=", "sec", "&", "gclid", "=", "v", "&", "q", "=", "u", "&",
    "ref", "=", "v", "&", "custom_param", "=", "v">>

\* the removable parameters first and last
MixedQuery ==
  <<"ref", "=", "u", "&", "sec", "=", "q", "&", "UTM_New", "=", "v", "&",
    "u", "=", "sec", "&", "gclid", "=", "v">>

OrderInputs ==
  { <<ExampleOrigin, "/page", "?">> \o LongQuery,
    <<ExampleOrigin, "/page", "?">> \o MixedQuery,
    <<ExampleOrigin, "/page", "?">> \o MixedQuery \o <<"#", "utm_content", "=", "v">>,
    <<GoogleOrigin, "/url", "?", "q", "=">>
      \o Enc(<<ExampleOrigin, "/page", "?">> \o MixedQuery) }

BothInputs ==
  {Pad(p, g) : p \in BOOLEAN, g \in GarbageInputs}
  \cup {Pad(p, <<ExampleOrigin, "/page", "?", "gclid", "=", "v">>) : p \in BOOLEAN}
  \cup {<<"/page", "?", "gclid", "=", "v">>, <<GoogleOrigin, " ", "/url">>}
  \cup OrderInputs

InitBoth ==
  /\ input \in BothInputs
  /\ opts \in StripOpts
  /\ rules \in Rulesets
  /\ pc = "start"
  /\ res = NoResult
  /\ res2 = NoResult
  /\ RefreshIdle

\* stripTracking(input, opts): its result is kept in res
BothStrip ==
  /\ pc = "start"
  /\ res' = stripTracking(input, opts)
  /\ pc' = "stripped"
  /\ UNCHANGED <<input, opts, rules, res2>>
  /\ UNCHANGED refreshVars

\* applyClearUrls(input, rules, opts): its result is kept in res2
BothApply ==
  /\ pc = "stripped"
  /\ res2' = applyClearUrls(input, rules, opts)
  /\ pc' = "both"
  /\ UNCHANGED <<input, opts, rules, res>>
  /\ UNCHANGED refreshVars

NextBoth == BothStrip \/ BothApply

SpecBoth == InitBoth /\ [][NextBoth]_vars

(***************************************************************************)
(* Properties of the heuristic cleaner                                     *)
(***************************************************************************)
StripDone == pc \in {"cleaned", "recleaned"}

\* the names of a query, as a set
KeySet(list) == {list[i].k : i \in 1..Len(list)}

\* the query of the URL in a result
OutQuery(r) == SearchParams(ParseUrl(r.url))

\* the removal predicate as the specification words it
Removable(key, o) ==
  LET k == Lower(key)
      kept == {LowerTok(p) : p \in o.keepParams}
      removal == BAD_PARAMS_LIST
                   \cup (IF o.removeReferral THEN REFERRAL_PARAMS_LIST ELSE {})
                   \cup {LowerTok(p) : p \in o.extraBadParams}
  IN /\ ~(Len(k) = 1 /\ k[1] \in kept)
     /\ \/ StartsWithUtm(k)
        \/ (Len(k) = 1 /\ k[1] \in removal)

\* a name is present in a query, compared case-insensitively
Present(list, name) ==
  \E i \in 1..Len(list) : Lower(list[i].k) = <<LowerTok(name)>>

\* C1: cleaning the output of stripTracking again, with the same options,
\* returns the same url and changed = false.
C1_StripIdempotent ==
  pc = "recleaned" =>
    /\ res2.error = NoError
    /\ res2.url = res.url
    /\ res2.changed = FALSE

\* C3: in every non-error result, a query parameter of the URL being cleaned
\* is absent from the output exactly when it is not kept and either starts
\* with utm_ or is in the removal set; every other parameter is present.
C3_RemovalPredicate ==
  (StripDone /\ res.error = NoError) =>
    LET inList == SearchParams(WorkingUrl(input))
    IN /\ ParseUrl(res.url).ok
       /\ \A i \in 1..Len(inList) :
            (inList[i].k \notin KeySet(OutQuery(res))) <=> Removable(inList[i].k, opts)

\* C3 witness: an upper-cased utm_ name that is in no list is removed while
\* another parameter stays.
C3_Witness ==
  /\ StripDone /\ res.error = NoError
  /\ <<"UTM_New">> \in KeySet(SearchParams(WorkingUrl(input)))
  /\ <<"custom_param">> \in KeySet(SearchParams(WorkingUrl(input)))
  /\ <<"UTM_New">> \notin KeySet(OutQuery(res))
  /\ <<"custom_param">> \in KeySet(OutQuery(res))

\* C4 as claimed: every name of keepParams is in the output query if and
\* only if it was in the input query.
C4_KeepInputOutput ==
  StripDone =>
    \A P \in opts.keepParams :
      Present(OutQuery(res), P) <=> Present(SearchParams(ParseUrl(input)), P)

\* C4 amended: every name of keepParams is in the output query if and only
\* if it was in the query of the URL being cleaned (the input when nothing
\* is unwrapped, the unwrapped target otherwise).
C4_KeepPrecedence ==
  (StripDone /\ res.error = NoError) =>
    \A P \in opts.keepParams :
      Present(OutQuery(res), P) <=> Present(SearchParams(WorkingUrl(input)), P)

\* C4 witness: a kept referral name survives although removeReferral is set.
C4_Witness ==
  /\ StripDone /\ res.error = NoError
  /\ opts.removeReferral
  /\ "REF" \in opts.keepParams
  /\ Present(SearchParams(WorkingUrl(input)), "ref")
  /\ Present(OutQuery(res), "ref")

\* the output is the target T with its removable parameters stripped
CleanedTarget(T, r, o) ==
  LET t == ParseUrl(T)
      out == ParseUrl(r.url)
      NotRemovable(p) == ~Removable(p.k, o)
  IN /\ t.ok /\ out.ok
     /\ out.origin = t.origin
     /\ out.path = t.path
     /\ SearchParams(out) = SelectSeq(SearchParams(t), NotRemovable)

IsGoogleUrlLink(u) == u.ok /\ u.origin = GoogleOrigin /\ u.path = <<"/url">>

OnlyReferral(key, o) ==
  LET k == Lower(key)
  IN /\ Len(k) = 1
     /\ k[1] \in REFERRAL_PARAMS_LIST
     /\ k[1] \notin BAD_PARAMS_LIST
     /\ k[1] \notin {LowerTok(p) : p \in o.extraBadParams}
     /\ k[1] \notin {LowerTok(p) : p \in o.keepParams}
     /\ ~StartsWithUtm(k)

\* C9: a parameter that only ReferralParams names is preserved when
\* removeReferral = false and removed when removeReferral = true.
C9_ReferralToggle ==
  (StripDone /\ res.error = NoError) =>
    LET inList == SearchParams(WorkingUrl(input))
    IN \A i \in 1..Len(inList) :
         OnlyReferral(inList[i].k, opts) =>
           ((inList[i].k \in KeySet(OutQuery(res))) <=> ~opts.removeReferral)

\* C9 witness: ref is preserved with removeReferral = false.
C9_Witness ==
  /\ StripDone /\ res.error = NoError
  /\ ~opts.removeReferral
  /\ OnlyReferral(<<"ref">>, opts)
  /\ <<"ref">> \in KeySet(SearchParams(WorkingUrl(input)))
  /\ <<"ref">> \in KeySet(OutQuery(res))

\* the options a call without an options argument runs with
DefaultOpts(o) ==
  o.keepParams = {} /\ o.extraBadParams = {} /\ o.removeReferral

\* the part of a URL string before its fragment
BeforeHash(str) ==
  IF IndexOf(str, "#") = 0 THEN str ELSE Take(str, IndexOf(str, "#") - 1)

\* the parameters a fragment holds when it is read as a query string
HashParamsOf(u) == ParseQuery(StripHashPrefix(HashOf(u)))

\* every parameter of the list is one the removal predicate names
AllRemovable(list, o) == \A i \in 1..Len(list) : Removable(list[i].k, o)

\* C12: when every query parameter is removed the output has no "?" before
\* its fragment, when every parameter of a fragment that holds "=" is removed
\* the output has no "#", and the documented example with default options
\* yields https://example.com/page?custom_param=value with changed = true.
C12_CanonicalSerialization ==
  (StripDone /\ res.error = NoError) =>
    LET w == WorkingUrl(input)
    IN /\ AllRemovable(SearchParams(w), opts) =>
            \A i \in 1..Len(BeforeHash(res.url)) : BeforeHash(res.url)[i] # "?"
       /\ (IndexOf(HashOf(w), "=") # 0 /\ AllRemovable(HashParamsOf(w), opts)) =>
            \A i \in 1..Len(res.url) : res.url[i] # "#"
       /\ (Trim(input) = EndToEndInput /\ DefaultOpts(opts)) =>
            /\ res.url = <<ExampleOrigin, "/page", "?", "custom_param", "=", "value">>
            /\ res.changed

\* C12 witness: the documented example has been cleaned with default options.
C12_Witness ==
  /\ StripDone /\ res.error = NoError
  /\ input = EndToEndInput
  /\ DefaultOpts(opts)
  /\ res.url = <<ExampleOrigin, "/page", "?", "custom_param", "=", "value">>

\* C13: when the input parses and a redirector rule extracts a target that
\* does not parse, stripTracking returns no error and the result is the
\* original URL cleaned.
C13_BestEffortUnwrap ==
  LET raw == Trim(input)
      un == unwrapKnownRedirectors(raw)
  IN (StripDone /\ ParseUrl(raw).ok /\ un.from # Null /\ ~ParseUrl(un.url).ok) =>
       /\ res.error = NoError
       /\ CleanedTarget(raw, res, opts)

RedirectorOrigins == {GoogleOrigin, FacebookOrigin, InstagramOrigin}

\* C18: a redirector rule matches only on its own host, so a URL on any other
\* host is cleaned without being unwrapped and gets unwrappedFrom = null.
C18_HostAndPath ==
  LET u == ParseUrl(input)
  IN (StripDone /\ u.ok) =>
       /\ u.origin \notin RedirectorOrigins =>
            (res.error = NoError /\ res.unwrappedFrom = Null)
       /\ (res.error = NoError /\ res.unwrappedFrom = "google") =>
            (u.origin = GoogleOrigin /\ u.path = <<"/url">>)
       /\ (res.error = NoError /\ res.unwrappedFrom = "facebook") =>
            u.origin = FacebookOrigin
       /\ (res.error = NoError /\ res.unwrappedFrom = "instagram") =>
            u.origin = InstagramOrigin

\* the structural conditions of the three built-in rules
GoogleMatches(u) ==
  /\ IsGoogleHost(u.origin) /\ u.path = <<"/url">>
  /\ (Len(Get(SearchParams(u), "url")) > 0 \/ Len(Get(SearchParams(u), "q")) > 0)

FacebookMatches(u) ==
  /\ (u.origin = FacebookOrigin \/ u.path = <<"/l.php">>)
  /\ Len(Get(SearchParams(u), "u")) > 0

InstagramMatches(u) == u.origin = InstagramOrigin /\ Len(Get(SearchParams(u), "u")) > 0

\* C19: of the rules an input matches, the first in the order Google,
\* Facebook, Instagram is used and named by unwrappedFrom; the Google rule
\* takes the url parameter before the q parameter.
C19_RedirectorPriority ==
  LET u == ParseUrl(input)
      sp == SearchParams(u)
  IN (StripDone /\ u.ok /\ res.error = NoError) =>
       /\ GoogleMatches(u) => res.unwrappedFrom = "google"
       /\ (~GoogleMatches(u) /\ FacebookMatches(u)) =>
            (res.unwrappedFrom = "facebook" /\ CleanedTarget(Get(sp, "u"), res, opts))
       /\ (~GoogleMatches(u) /\ ~FacebookMatches(u) /\ InstagramMatches(u)) =>
            (res.unwrappedFrom = "instagram" /\ CleanedTarget(Get(sp, "u"), res, opts))
       /\ (GoogleMatches(u) /\ Len(Get(sp, "url")) > 0) =>
            CleanedTarget(Get(sp, "url"), res, opts)
       /\ (GoogleMatches(u) /\ Len(Get(sp, "url")) = 0) =>
            CleanedTarget(Get(sp, "q"), res, opts)

\* C19 witness: a link that matches the Facebook rule by its path and the
\* Instagram rule by its host is unwrapped as "facebook".
C19_Witness ==
  /\ StripDone /\ res.error = NoError
  /\ FacebookMatches(ParseUrl(input))
  /\ InstagramMatches(ParseUrl(input))
  /\ res.unwrappedFrom = "facebook"

\* the rule an input matches first, and the target that rule extracts
OuterName(u) ==
  IF GoogleMatches(u) THEN "google"
  ELSE IF FacebookMatches(u) THEN "facebook"
  ELSE IF InstagramMatches(u) THEN "instagram"
  ELSE Null

OuterTarget(u) ==
  IF GoogleMatches(u)
  THEN OrElse(Get(SearchParams(u), "url"), Get(SearchParams(u), "q"))
  ELSE Get(SearchParams(u), "u")

\* the target of the input is itself a link one of the rules matches
WrapsRedirector(u) ==
  /\ OuterName(u) # Null
  /\ ParseUrl(OuterTarget(u)).ok
  /\ OuterName(ParseUrl(OuterTarget(u))) # Null

\* C20: one hop is unwrapped per call: for a link whose target is a second
\* redirector link the result is that inner link cleaned, and unwrappedFrom
\* names the outer redirector only.
C20_BoundedUnwrap ==
  LET u == ParseUrl(input)
  IN (StripDone /\ u.ok /\ WrapsRedirector(u)) =>
       /\ res.error = NoError
       /\ res.changed
       /\ res.unwrappedFrom = OuterName(u)
       /\ CleanedTarget(OuterTarget(u), res, opts)

\* C20 witness: a Google link around an l.facebook.com link returns the
\* l.facebook.com link, named "google".
C20_Witness ==
  /\ StripDone /\ res.error = NoError
  /\ IsGoogleUrlLink(ParseUrl(input))
  /\ Get(SearchParams(ParseUrl(input)), "q") = NestedTarget
  /\ res.unwrappedFrom = "google"
  /\ ParseUrl(res.url).origin = FacebookOrigin
  /\ Get(OutQuery(res), "u") = <<ExampleOrigin, "/page">>

\* the fragment of a URL reads like a query string
HashLooksLikeQuery(u) == IndexOf(HashOf(u), "=") # 0

\* a parameter of the URL being cleaned is missing from the query of the
\* output, or from its fragment when the fragment reads like a query string
SomethingRemoved(w, out) ==
  \/ KeySet(SearchParams(w)) # KeySet(SearchParams(out))
  \/ (HashLooksLikeQuery(w) /\ KeySet(HashParamsOf(w)) # KeySet(HashParamsOf(out)))

NoneRemovable(list, o) == \A i \in 1..Len(list) : ~Removable(list[i].k, o)

\* C22: the fragment is cleaned only when it holds "=": a fragment without
\* "=", or one none of whose keys is removable, is returned as it was, and
\* the fragment parameters that are not removable stay in the fragment.
C22_FragmentHandling ==
  (StripDone /\ res.error = NoError) =>
    LET w == WorkingUrl(input)
        out == ParseUrl(res.url)
        NotRemovable(p) == ~Removable(p.k, opts)
    IN /\ (~HashLooksLikeQuery(w) \/ NoneRemovable(HashParamsOf(w), opts)) =>
            HashOf(out) = HashOf(w)
       /\ HashLooksLikeQuery(w) =>
            HashParamsOf(out) = SelectSeq(HashParamsOf(w), NotRemovable)

(***************************************************************************)
(* Properties of the rule engine                                           *)
(***************************************************************************)
ApplyDone == pc \in {"applied", "reapplied"}

ApplyOk == ApplyDone /\ res.error = NoError

\* the working URL after the redirection pass has handled the first n providers
AfterRedirections(n) ==
  LET w == ParseUrl(Trim(input))
  IN RedirectionPass([u |-> w, changed |-> FALSE], Take(rules.providers, n), Href(w))

\* the working URL after the removal pass has handled the first n providers
AfterRemovals(n) ==
  RemovalPass(AfterRedirections(Len(rules.providers)), Take(rules.providers, n), opts)

\* the provider's urlPattern matches the string and so does one of its exceptions
MatchedButExcepted(provider, str) ==
  /\ provider.urlPattern.k # "bad"
  /\ Test(provider.urlPattern, str)
  /\ \E i \in 1..Len(provider.exceptions) :
       provider.exceptions[i].k # "bad" /\ Test(provider.exceptions[i], str)

\* the provider's urlPattern matches the string and none of its exceptions does
MatchedNotExcepted(provider, str) ==
  /\ provider.urlPattern.k # "bad"
  /\ Test(provider.urlPattern, str)
  /\ \A i \in 1..Len(provider.exceptions) :
       provider.exceptions[i].k = "bad" \/ ~Test(provider.exceptions[i], str)

\* an entry of the list matches the name
SomeEntryMatches(entries, key) ==
  \E i \in 1..Len(entries) : EntryRemoves(entries[i], Lower(key))

\* C2: applying the rules to the output of applyClearUrls again, with the
\* same ruleset and options, returns the same url and changed = false.
C2_ApplyIdempotent ==
  pc = "reapplied" =>
    /\ res2.error = NoError
    /\ res2.url = res.url
    /\ res2.changed = FALSE

\* C5: a query parameter whose name is in keepParams (case-insensitive) is
\* never removed by the rules or referralMarketing entries of a provider.
C5_ApplyKeepWins ==
  (ApplyOk /\ \A i \in 1..Len(rules.providers) : rules.providers[i].rawRules = <<>>) =>
    LET inList == SearchParams(AfterRedirections(Len(rules.providers)).u)
    IN \A P \in opts.keepParams :
         \A i \in 1..Len(inList) :
           Lower(inList[i].k) = <<LowerTok(P)>> =>
             inList[i].k \in KeySet(OutQuery(res))

\* C7: a provider whose urlPattern matches the working URL while one of its
\* exceptions matches it too contributes nothing: neither pass changes the
\* working URL at that provider, so a run in which every matching provider
\* is excepted returns the parameters of the input untouched.
C7_ExceptionSuppression ==
  ApplyOk =>
    LET w == ParseUrl(Trim(input))
        n == Len(rules.providers)
    IN /\ \A i \in 1..n :
            MatchedButExcepted(rules.providers[i], Href(w)) =>
              AfterRedirections(i) = AfterRedirections(i - 1)
       /\ \A i \in 1..n :
            MatchedButExcepted(rules.providers[i], Href(AfterRemovals(i - 1).u)) =>
              AfterRemovals(i) = AfterRemovals(i - 1)
       /\ (\A i \in 1..n :
             Test(rules.providers[i].urlPattern, Href(w)) =>
               MatchedButExcepted(rules.providers[i], Href(w))) =>
            /\ ~res.changed
            /\ OutQuery(res) = SearchParams(w)

\* C7 witness: a provider that would remove ref is excepted because the URL
\* carries custom_param, and ref stays in the output.
C7_Witness ==
  /\ ApplyOk
  /\ rules.providers = <<GlobalProvider>>
  /\ ~opts.allowReferral
  /\ MatchedButExcepted(GlobalProvider, Href(ParseUrl(Trim(input))))
  /\ <<"ref">> \in KeySet(SearchParams(ParseUrl(Trim(input))))
  /\ <<"ref">> \in KeySet(OutQuery(res))

NoRawRules == \A i \in 1..Len(rules.providers) : rules.providers[i].rawRules = <<>>

\* the parameter is matched by a referralMarketing entry of provider i, which
\* applies at its turn, and by no rules entry of any provider
ReferralOnly(i, key) ==
  /\ MatchedNotExcepted(rules.providers[i], Href(AfterRemovals(i - 1).u))
  /\ key \in KeySet(SearchParams(AfterRemovals(i - 1).u))
  /\ SomeEntryMatches(rules.providers[i].referralMarketing, key)
  /\ \A j \in 1..Len(rules.providers) :
       ~SomeEntryMatches(rules.providers[j].rules, key)

\* C8: a query parameter matched only by the referralMarketing entries of a
\* matching, non-excepted provider is in the output when allowReferral = true
\* and absent from it when allowReferral = false.
C8_ApplyReferralToggle ==
  (ApplyOk /\ NoRawRules) =>
    \A i \in 1..Len(rules.providers) :
      \A key \in KeySet(SearchParams(AfterRemovals(i - 1).u)) :
        ReferralOnly(i, key) =>
          ((key \in KeySet(OutQuery(res))) <=> opts.allowReferral)

\* C8 witness: ref is kept with allowReferral = true although a
\* referralMarketing entry of a matching provider names it.
C8_Witness ==
  /\ ApplyOk /\ NoRawRules
  /\ opts.allowReferral
  /\ \E i \in 1..Len(rules.providers) : ReferralOnly(i, <<"ref">>)
  /\ <<"ref">> \in KeySet(OutQuery(res))

\* the working URL of provider i after its rule loop and the first k of its
\* rawRules
AfterRawRules(i, k) ==
  LET provider == rules.providers[i]
      st == AfterRemovals(i - 1)
  IN RawRuleLoop(RuleLoop(st, Keys(SearchParams(st.u)), RawEntries(provider, opts)),
                 Take(provider.rawRules, k))

\* rawRule k of provider i, run on the working URL the rules before it left
RawRuleEffect(i, k) ==
  LET raw == rules.providers[i].rawRules[k]
      prior == AfterRawRules(i, k - 1)
      before == Href(prior.u)
      after == ReplaceAll(raw, before)
  IN IF raw.k # "bad" /\ after # before /\ ParseUrl(after).ok
     THEN AfterRawRules(i, k) = [u |-> ParseUrl(after), changed |-> TRUE]
     ELSE AfterRawRules(i, k) = prior

\* C23: each rawRule of a provider that applies deletes every
\* case-insensitive match from the serialized working URL; a text that
\* differs and parses becomes the working URL and sets changed, a text that
\* does not parse is dropped and the working URL and changed stay as they
\* were. With RawProvider alone the result is the input without any "&ref=v".
C23_RawRules ==
  (ApplyOk /\ ~HasNullProvider(rules.providers)) =>
    LET n == Len(rules.providers)
        w == ParseUrl(Trim(input))
        deleted == ReplaceAll(Lit(<<"&", "ref", "=", "v">>), Href(w))
    IN /\ \A i \in 1..n :
            MatchedNotExcepted(rules.providers[i], Href(AfterRemovals(i - 1).u)) =>
              /\ \A k \in 1..Len(rules.providers[i].rawRules) : RawRuleEffect(i, k)
              /\ AfterRemovals(i) = AfterRawRules(i, Len(rules.providers[i].rawRules))
       /\ res.url = normalizeUrl(AfterRemovals(n).u)
       /\ res.changed = AfterRemovals(n).changed
       /\ (rules.providers = <<RawProvider>> /\ Test(RawProvider.urlPattern, Href(w))) =>
            /\ res.url = normalizeUrl(ParseUrl(deleted))
            /\ res.changed = (deleted # Href(w))

\* C23 witness: the first rawRule deletes "&ref=v" and sets changed; the
\* last one would delete the origin, which leaves no URL, and is dropped.
C23_Witness ==
  /\ ApplyOk
  /\ rules.providers = <<RawProvider>>
  /\ input = <<ExampleOrigin, "/page", "?", "gclid", "=", "v", "&", "ref", "=", "v">>
  /\ res.url = <<ExampleOrigin, "/page", "?", "gclid", "=", "v">>
  /\ res.changed
  /\ ~ParseUrl(ReplaceAll(RawProvider.rawRules[3], res.url)).ok

\* C23 witness of the dropped substitution alone: no rawRule changes the URL
\* for good, and changed stays false.
C23_WitnessDropped ==
  /\ ApplyOk
  /\ rules.providers = <<RawProvider>>
  /\ input = <<ExampleOrigin, "/page", "?", "gclid", "=", "v">>
  /\ res.url = input
  /\ ~res.changed

\* the regex source compiles
Wellformed(re) == re.k # "bad"

\* the provider without those of its list entries that do not compile
WithoutBadEntries(provider) ==
  [provider EXCEPT !.exceptions = SelectSeq(@, Wellformed),
                   !.redirections = SelectSeq(@, Wellformed),
                   !.rules = SelectSeq(@, Wellformed),
                   !.referralMarketing = SelectSeq(@, Wellformed),
                   !.rawRules = SelectSeq(@, Wellformed)]

\* the ruleset with every entry that does not compile taken out, the
\* urlPattern included: a provider without urlPattern is tested with
\* new RegExp(undefined)
WithoutMalformed(r) ==
  [r EXCEPT !.providers =
     [i \in 1..Len(r.providers) |->
        LET p == WithoutBadEntries(r.providers[i])
        IN IF Wellformed(p.urlPattern) THEN p ELSE [p EXCEPT !.urlPattern = UndefRe]]]

\* the ruleset with every list entry that does not compile taken out, and
\* every provider whose urlPattern does not compile taken out as a whole
WithoutMalformedOrProvider(r) ==
  LET HasPattern(p) == Wellformed(p.urlPattern)
      kept == SelectSeq(r.providers, HasPattern)
  IN [r EXCEPT !.providers = [i \in 1..Len(kept) |-> WithoutBadEntries(kept[i])]]

\* some provider of the ruleset holds a regex that does not compile
HasMalformed(r) == WithoutMalformedOrProvider(r) # r

\* C24 as stated: the result is the one the ruleset would give with every
\* entry that does not compile absent, the urlPattern like any other entry.
C24_MalformedAsAbsent ==
  ApplyOk => res = applyClearUrls(input, WithoutMalformed(rules), opts)

\* C24: an exception, redirection, rule, referralMarketing entry or rawRule
\* that does not compile is skipped alone, and a provider whose urlPattern
\* does not compile is skipped as a whole: the result is the one the ruleset
\* gives without those entries and without those providers.
C24_MalformedIsolation ==
  ApplyOk => res = applyClearUrls(input, WithoutMalformedOrProvider(rules), opts)

\* C24 witness: the first provider has a urlPattern that does not compile and
\* is skipped; in the second one the rule after the entry that does not
\* compile and the referralMarketing entry still remove their parameters.
C24_Witness ==
  /\ ApplyOk
  /\ rules.providers = <<BrokenProvider, ExampleProvider>>
  /\ HasMalformed(rules)
  /\ ~opts.allowReferral
  /\ KeySet(SearchParams(ParseUrl(Trim(input)))) = {<<"UTM_New">>, <<"REF">>}
  /\ res.url = <<ExampleOrigin, "/">>
  /\ res.changed

\* the entry is written as a parameter name: no regex metacharacter, no "="
LiteralName(entry) ==
  /\ entry.k = "lit" /\ ~entry.bol /\ ~entry.eol
  /\ \A j \in 1..Len(entry.s) : entry.s[j] \notin {"=", "?", "&", "#", "/", " "}

\* the entry names the key: a literal name equal to it without regard to
\* case, or a regex that matches the lower-cased key or the key followed by "="
EntryNames(entry, key) ==
  IF LiteralName(entry) THEN Lower(entry.s) = Lower(key)
  ELSE /\ Wellformed(entry)
       /\ (Test(entry, Lower(key)) \/ Test(entry, Lower(key) \o <<"=">>))

\* provider i applies at its turn and one of the entries it uses names the key
ProviderNames(i, key) ==
  LET provider == rules.providers[i]
      entries == provider.rules \o
                 (IF opts.allowReferral THEN <<>> ELSE provider.referralMarketing)
  IN /\ MatchedNotExcepted(provider, Href(AfterRemovals(i - 1).u))
     /\ \E j \in 1..Len(entries) : EntryNames(entries[j], key)

\* C25: a query key of the working URL is removed exactly when a matching,
\* non-excepted provider has an entry that names it: as a literal name equal
\* to the key case-insensitively, or as a regex matching the lower-cased key
\* or the lower-cased key followed by "="; every other key is kept.
C25_ParameterMatching ==
  (ApplyOk /\ NoRawRules /\ ~HasNullProvider(rules.providers)) =>
    LET n == Len(rules.providers)
    IN \A key \in KeySet(SearchParams(AfterRedirections(n).u)) :
         (key \notin KeySet(OutQuery(res))) <=> (\E i \in 1..n : ProviderNames(i, key))

\* C25 witness: ref is named only by the regex "ref=", which matches the key
\* followed by "=" and not the key alone, and is removed; gclid is removed as
\* a literal name.
C25_Witness ==
  /\ ApplyOk /\ NoRawRules
  /\ rules.providers = <<GlobalProvider>>
  /\ ~opts.allowReferral
  /\ KeySet(SearchParams(ParseUrl(Trim(input)))) = {<<"ref">>, <<"gclid">>}
  /\ ~Test(GlobalProvider.referralMarketing[1], <<"ref">>)
  /\ Test(GlobalProvider.referralMarketing[1], <<"ref", "=">>)
  /\ OutQuery(res) = <<>>
  /\ res.changed

\* C25 witness of a key no entry names: gclid is removed, custom_param stays.
C25_WitnessKept ==
  /\ ApplyOk /\ NoRawRules
  /\ rules.providers = <<ExampleProvider>>
  /\ KeySet(SearchParams(ParseUrl(Trim(input)))) = {<<"gclid">>, <<"custom_param">>}
  /\ KeySet(OutQuery(res)) = {<<"custom_param">>}

\* the pairs of a are pairs of b, in the order they have in b
RECURSIVE IsSubsequence(_, _)
IsSubsequence(a, b) ==
  IF Len(a) = 0 THEN TRUE
  ELSE IF Len(b) = 0 THEN FALSE
  ELSE IF a[1] = b[1] THEN IsSubsequence(Tail(a), Tail(b))
  ELSE IsSubsequence(a, Tail(b))

\* the pairs of the list whose name the output still has
KeptPairs(list, out) ==
  LET Kept(p) == p.k \in KeySet(out) IN SelectSeq(list, Kept)

\* C26: the query of the output of either cleaner holds the pairs of the URL
\* being cleaned that were not removed, with their values and in their
\* order; a parameter whose name is still in the output has lost none of its
\* pairs (for the rule engine: when no rawRule deletes text).
C26_OrderPreservation ==
  /\ (pc \in {"stripped", "both"} /\ res.error = NoError) =>
       LET list == SearchParams(WorkingUrl(input))
       IN /\ IsSubsequence(OutQuery(res), list)
          /\ OutQuery(res) = KeptPairs(list, OutQuery(res))
  /\ (pc = "both" /\ res2.error = NoError) =>
       LET list == SearchParams(AfterRedirections(Len(rules.providers)).u)
       IN /\ IsSubsequence(OutQuery(res2), list)
          /\ NoRawRules => OutQuery(res2) = KeptPairs(list, OutQuery(res2))

\* C26 witness: both cleaners removed parameters from the middle and the ends
\* of a query of five and left at least two, of different values, behind.
C26_Witness ==
  /\ pc = "both" /\ res.error = NoError /\ res2.error = NoError
  /\ input = <<ExampleOrigin, "/page", "?">> \o MixedQuery
  /\ OutQuery(res) = <<[k |-> <<"sec">>, v |-> <<"q">>], [k |-> <<"u">>, v |-> <<"sec">>]>>
  /\ Len(OutQuery(res2)) \in 2..4
  /\ OutQuery(res2)[1].v # OutQuery(res2)[2].v

\* a ruleset that is null, absent, no object, or an object without providers
Malformed(r) ==
  \/ r.kind \in {"null", "undefined", "string"}
  \/ (r.kind = "object" /\ ~r.hasProviders)

\* C10: with a malformed ruleset applyClearUrls returns the error "Rules not
\* available", changed = false and the input string as it was given.
C10_RulesUnavailable ==
  (ApplyDone /\ Malformed(rules)) =>
    /\ res.error = RulesUnavailable
    /\ res.changed = FALSE
    /\ res.url = input

\* C10 witness: the empty object {} and an input with spaces around it.
C10_Witness ==
  /\ ApplyDone
  /\ rules.kind = "object" /\ ~rules.hasProviders
  /\ Len(input) > 0 /\ input[1] = " "
  /\ ParseUrl(input).ok
  /\ res.error = RulesUnavailable
  /\ res.url = input

\* C14 (rule engine): whatever the providers mapping holds, applyClearUrls
\* returns a result record and does not throw.
C14_NoThrow ==
  ApplyDone => res.error \in {NoError, InvalidURL, RulesUnavailable}

\* the redirections of one provider, each run against the working URL as the
\* redirections before it have left it
RECURSIVE ChainedRedirLoop(_, _)
ChainedRedirLoop(st, redirs) ==
  IF Len(redirs) = 0 THEN st
  ELSE LET re == redirs[1]
           target == Group1(re, Href(st.u))
           next == ParseUrl(DecodeURIComponent(target))
       IN IF Compiles(re) /\ Len(target) > 0 /\ next.ok
          THEN ChainedRedirLoop([u |-> next, changed |-> TRUE], Tail(redirs))
          ELSE ChainedRedirLoop(st, Tail(redirs))

\* the redirection pass as one forward sweep in which every urlPattern and
\* exception is tested against the working URL as it stands
RECURSIVE ChainedRedirectionPass(_, _)
ChainedRedirectionPass(st, providers) ==
  IF Len(providers) = 0 THEN st
  ELSE IF Applies(providers[1], Href(st.u))
    THEN ChainedRedirectionPass(ChainedRedirLoop(st, providers[1].redirections),
                                Tail(providers))
  ELSE ChainedRedirectionPass(st, Tail(providers))

\* C17: in the redirection pass every urlPattern, exception and redirection
\* regex that follows a redirection is tested against the updated working
\* URL, so the pass ends at the URL a chained sweep ends at.
C17_RedirectionChaining ==
  ApplyOk =>
    LET w == ParseUrl(Trim(input))
    IN AfterRedirections(Len(rules.providers)).u
         = ChainedRedirectionPass([u |-> w, changed |-> FALSE], rules.providers).u

(***************************************************************************)
(* Properties of both cleaners                                             *)
(***************************************************************************)
\* the result both cleaners give for an input that is no URL
InvalidResult(inp) ==
  [url |-> inp, changed |-> FALSE, unwrappedFrom |-> Undefined, error |-> InvalidURL]

\* a ruleset applyClearUrls accepts: an object with a providers mapping
ValidRuleset(r) == r.kind = "object" /\ r.hasProviders

\* C11: for an input that does not parse as an absolute URL, stripTracking,
\* and applyClearUrls with a valid ruleset, return error = "Invalid URL",
\* changed = false and the input string as it was given, spaces included.
C11_InvalidInput ==
  ~ParseUrl(input).ok =>
    /\ pc \in {"stripped", "both"} => res = InvalidResult(input)
    /\ (pc = "both" /\ ValidRuleset(rules)) => res2 = InvalidResult(input)

\* C11 witness: "not a url" with spaces around it has gone through both
\* cleaners, the rule engine with a ruleset that holds providers.
C11_Witness ==
  /\ pc = "both"
  /\ input = <<" ", "not", " ", "a", " ", "url", " ">>
  /\ ValidRuleset(rules) /\ Len(rules.providers) > 0
  /\ res.error = InvalidURL /\ res.url = input
  /\ res2.error = InvalidURL /\ res2.url = input

(***************************************************************************)
(* Properties of the rules refresh                                         *)
(***************************************************************************)
\* the run p ends now by throwing
FailsNow(p) == runs[p].pc # "failed" /\ runs'[p].pc = "failed"

\* the run p writes storage now, with a text whose digest is the upstream
\* hash it fetched and which parses as JSON
VerifiedWrite(p) ==
  /\ runs[p].pc = "saveRules" /\ runs'[p].pc = "done"
  /\ sha256Hex(runs[p].rulesText) = runs[p].upstreamHash
  /\ IsJson(runs[p].rulesText)
  /\ storage'.present
  /\ storage'.rules = JsonParse(runs[p].rulesText)
  /\ storage'.hash = runs[p].upstreamHash

\* C15: the payload in storage changes only when an attempt saves rules
\* whose text hashed to the upstream hash and parsed as JSON; a step in which
\* an attempt fails (network error, hash mismatch, JSON parse error) leaves
\* the payload {rules, ts, hash} as it was.
C15_IntegrityGatedPersistence ==
  [][ /\ storage' # storage => \E p \in Procs : VerifiedWrite(p)
      /\ \A p \in Procs : FailsNow(p) => storage' = storage ]_vars

\* C15 witness: after a verified payload has been stored, attempts have
\* failed by hash mismatch and by JSON parse error, and the payload is there.
C15_Witness ==
  /\ storage.present
  /\ storage.rules = "rules1" /\ storage.hash = "h1"
  /\ runs[1].pc = "failed" /\ runs[1].error = HashMismatch
  /\ runs[2].pc = "failed" /\ runs[2].error = JsonParseError

\* the run has fetched the upstream hash
KnowsUpstream(run) == run.upstreamHash # ""

\* C16: a run of the hash-compare variant requests the rules text exactly
\* when the upstream hash differs from the cached hash.  With equal hashes it
\* returns the cached rules with updated = false and leaves storage as it
\* is; with different hashes and a verified text it stores the new payload
\* and returns the new rules with updated = true.
C16_ConditionalDownload ==
  /\ [](variant = "compare" =>
          \A p \in Procs :
            /\ ~KnowsUpstream(runs[p]) => ~runs[p].askedRules
            /\ KnowsUpstream(runs[p]) =>
                 (runs[p].askedRules
                    <=> runs[p].upstreamHash # CachedHash(runs[p].cached))
            /\ (runs[p].pc = "done" /\ ~runs[p].askedRules) =>
                 runs[p].ret = [returned |-> TRUE, rules |-> runs[p].cached.rules,
                                updated |-> FALSE]
            /\ (runs[p].pc = "done" /\ runs[p].askedRules) =>
                 runs[p].ret = [returned |-> TRUE,
                                rules |-> JsonParse(runs[p].rulesText),
                                updated |-> TRUE])
  /\ [][variant = "compare" =>
          \A p \in Procs :
            /\ (runs[p].pc = "fetchHash" /\ runs'[p].pc = "done") =>
                 storage' = storage
            /\ (runs[p].pc = "saveRules" /\ runs'[p].pc = "done") =>
                 /\ storage'.present
                 /\ storage'.rules = JsonParse(runs[p].rulesText)
                 /\ storage'.hash = runs[p].upstreamHash]_vars

\* C16 witness: one run has stored the rules of a new upstream hash, another
\* has found the cached hash equal to the upstream hash (sent in upper case)
\* and returned the cached rules without a rules request.
C16_Witness ==
  /\ variant = "compare"
  /\ \E p, q \in Procs :
       /\ runs[p].pc = "done" /\ runs[p].askedRules /\ runs[p].ret.updated
       /\ runs[q].pc = "done" /\ ~runs[q].askedRules /\ ~runs[q].ret.updated
       /\ runs[q].ret.rules = "rules1"
       /\ runs[q].cached.present
  /\ storage.present

(***************************************************************************)
(* Properties of the scheduling and backoff                                *)
(***************************************************************************)
\* the delay the k-th failure in a row is to schedule, in minutes
ExpectedDelay(k) ==
  CASE k = 1 -> 1
    [] k = 2 -> 5
    [] k = 3 -> 15
    [] k = 4 -> 30
    [] OTHER -> 60

\* the run has returned false
ReturnedFalse(p) == runs[p].pc = "returned" /\ runs[p].result = "false"

\* the run has returned true
ReturnedTrue(p) == runs[p].pc = "returned" /\ runs[p].result = "true"

\* C27: when the runs follow each other, the k-th failure since the backoff
\* index was 0 schedules the retry alarm 1, 5, 15, 30, 60 minutes ahead for
\* k = 1..5 and 60 minutes ahead after that, so the delays never decrease.
C27_ProgressiveBackoff ==
  /\ \A k \in 1..Len(streak) : streak[k] = ExpectedDelay(k)
  /\ \A k \in 1..(Len(streak) - 1) : streak[k] <= streak[k + 1]
  /\ ReturnedFalse(1) =>
       /\ Len(streak) > 0
       /\ alarms.retry = ExpectedDelay(Len(streak))

\* C27 witness: seven failures in a row; the last three retry after 60 minutes.
C27_Witness ==
  /\ ReturnedFalse(1)
  /\ streak = <<1, 5, 15, 30, 60, 60, 60>>
  /\ alarms.retry = 60

\* C28: at the step at which a run of ensureFreshRules returns true, the
\* persisted backoffIndex is 0 and the daily alarm is set, so that the next
\* failure retries after 1 minute.
C28_SuccessResets ==
  [][\A p \in Procs :
       (~ReturnedTrue(p) /\ ReturnedTrue(p)') =>
         /\ state'.present /\ state'.backoffIndex = 0
         /\ alarms'.daily]_vars

\* the reset read with the order of the two runs left open: when one run has
\* returned true and the other false, the index is 0 (failure first) or 1
\* (success first, and then the failure has retried after 1 minute)
C28_ResetSurvives ==
  (\E p, q \in Procs : ReturnedTrue(p) /\ ReturnedFalse(q)) =>
    \/ state.backoffIndex = 0
    \/ state.backoffIndex = 1 /\ alarms.retry \in {0, 1}

\* the elements of RETRY_DELAYS_MIN
RetryDelays == {RETRY_DELAYS_MIN[k] : k \in 1..Len(RETRY_DELAYS_MIN)}

\* C29: whatever runs of ensureFreshRules have succeeded or failed, and
\* however they interleave, the persisted backoffIndex is an integer in 0..4
\* and every retry delay that was scheduled is an element of RETRY_DELAYS_MIN.
C29_IndexBound ==
  /\ state.backoffIndex \in 0..4
  /\ \A p \in Procs : runs[p].i \in 0..4
  /\ alarms.retry \in {0} \cup RetryDelays
  /\ \A k \in 1..Len(streak) : streak[k] \in RetryDelays

\* C29 witness: a failing run and a successful run have interleaved from the
\* highest index; the failing one has scheduled its retry and written 4.
C29_Witness ==
  /\ \E p, q \in Procs : ReturnedTrue(p) /\ ReturnedFalse(q)
  /\ state.present /\ state.backoffIndex = 4
  /\ alarms.retry = 60
  /\ alarms.daily

\* the persisted index before either of the two runs was called: the state
\* the two runs start from is the one after as many failures in a row as
\* ensureFreshRules had been called, and each of the two runs is one call
IndexBefore == attempts - Cardinality(Procs)

\* C30: when two runs of ensureFreshRules overlap and both fail, the
\* persisted backoffIndex after both have returned is min(i + 2, 4), i
\* being the persisted index before either run started.
C30_NoLostUpdate ==
  (\A p \in Procs : ReturnedFalse(p)) =>
    state.backoffIndex = MathMin(IndexBefore + 2, 4)

\* a run has returned false and the retry alarm it scheduled has not fired
RetryPending(p) == ReturnedFalse(p) /\ alarms.retry > 0

\* C31: a run of ensureFreshRules that returns false has scheduled the
\* one-shot retry alarm by the time it returns, and when pending alarms are
\* delivered a failed run with its retry alarm pending is eventually
\* followed by another call of ensureFreshRules (as long as fewer than
\* MaxRetryRuns calls were made).
C31_RetryLiveness ==
  /\ [][\A p \in Procs :
          (~ReturnedFalse(p) /\ ReturnedFalse(p)') => alarms'.retry > 0]_vars
  /\ \A p \in Procs : \A n \in 0..(MaxRetryRuns - 1) :
       (RetryPending(p) /\ attempts = n) ~> (attempts > n)

\* a run has returned false, its retry alarm has fired, and the run the
\* alarm started is in progress
C31_Witness ==
  \E p, q \in Procs :
    /\ p # q
    /\ ReturnedFalse(p)
    /\ alarms.retry = 0
    /\ runs[q].pc \notin {"idle", "returned"}
    /\ attempts >= 2

====
